---- MODULE Spec2Model ----
(***************************************************************************)
(* Connection tracking of netfcts: the compact connection record           *)
(* (src/src/lib.rs), the wrap-around record stores RecordStore and Store64 *)
(* (src/src/recstore.rs), the socket index Sock2Index and the port         *)
(* shuffle shuffle_ports (src/src/utils.rs).                               *)
(*                                                                         *)
(* Rust arrays and the vectors behind a store are functions over           *)
(* 0..len-1, a returned Vec is a sequence, Option<T> is a sequence of      *)
(* length 0 (None) or 1 (Some), a tuple is a sequence.  A panic is         *)
(* recorded in fault and stops the owning pipeline.                        *)
(***************************************************************************)
EXTENDS Integers, Sequences, FiniteSets

VARIABLES
    cap,        \* capacity both stores were built with
    rs,         \* the RecordStore<ConRecord>
    rs_slots,   \* slots returned by RecordStore::get_unused_slot, in call order
    rs_warns,   \* number of wrap warnings RecordStore logged
    s64,        \* the Store64<T>
    s64_slots,  \* slots returned by Store64::get_unused_slot, in call order
    s64_warns,  \* number of wrap warnings Store64 logged
    rec,        \* one ConRecord
    pc,         \* life cycle of rec: "allocated" (slot handed out) or "live" (after init)
    pushed,     \* states passed to push_state since init, in call order
    clock,      \* the cycle counter read by rdtsc
    idx,        \* the Sock2Index
    last,       \* the last Sock2Index call: operation, arguments and result
    ips_seen,   \* the IP addresses passed to Sock2Index::insert so far
    handles,    \* con_rec of each connection handle on rs: None or Some(slot)
    call,       \* the last call on a record, a handle or a store: name, handle, argument, result
    cause_sets, \* per slot of rs: set_release_cause calls since the record's init
    ncalls,     \* calls made through handles and on records of rs
    shuffled,   \* the shuffle_ports calls so far: arguments and vector returned
    incs,       \* calls of inc_sent_payload_pkts and inc_recv_payload_pkts on rec since its init
    fault       \* "none", or the panic that stopped the pipeline

storeVars == <<cap, rs, rs_slots, rs_warns, s64, s64_slots, s64_warns>>
recVars == <<rec, pc, pushed, clock>>
idxVars == <<idx, last, ips_seen>>
hdlVars == <<handles, call, cause_sets, ncalls>>
vars == <<cap, rs, rs_slots, rs_warns, s64, s64_slots, s64_warns,
          rec, pc, pushed, clock, idx, last, ips_seen,
          handles, call, cause_sets, ncalls, shuffled, incs, fault>>

None == <<>>
Some(x) == <<x>>

(***************************************************************************)
(* Bounds of the model.                                                    *)
(***************************************************************************)
\* capacities 1..MaxCap are tried
MaxCap == 4
\* get_unused_slot calls per store
MaxCalls == 10
\* number of TCP states (from SynSent on) passed to push_state
NumPushStates == 2
\* 2^32, scaled: `as u32` keeps a value modulo U32Mod
U32Mod == 65536
\* cycles the counter advances between two reads
ClockStep == 1500
\* u16::MAX, scaled: ports and slot numbers are 0..U16Max
U16Max == 2
\* insert is called with the slot numbers 0..MaxSlot
MaxSlot == 1
\* addresses beyond the number of banks offered to the index
ExtraIps == 1
\* capacities 1..MaxHandleCap of the store the handles share
MaxHandleCap == 2
\* set_release_cause calls in one life of a record
MaxCauseSets == 2
\* times the slot of a record is handed out again
MaxReuses == 1
\* calls of shuffle_ports
MaxShuffles == 3
\* capacities 1..MaxSortCap of the stores that are sorted
MaxSortCap == 4
\* writing calls through the handles and on the records of the shared store
MaxHandleCalls == 1
\* setter calls and counter increments on one record
MaxFieldCalls == 2

(***************************************************************************)
(* tcp_common: the enumerations lib.rs imports and their integer           *)
(* encodings, as the specification names them.                             *)
(***************************************************************************)
TcpStates ==
    <<"Closed", "Listen", "SynSent", "SynReceived", "Established",
      "FinWait", "Closing", "LastAck", "TimeWait">>

\* `state as u8`
TcpState_as_u8(state) == (CHOOSE i \in 1..Len(TcpStates) : TcpStates[i] = state) - 1

\* TcpState::from(u8)
TcpState_from(u) == TcpStates[u + 1]

TcpRoles == <<"Client", "Server">>

\* `role as u8`
TcpRole_as_u8(role) == (CHOOSE i \in 1..Len(TcpRoles) : TcpRoles[i] = role) - 1

\* TcpRole::from(u8)
TcpRole_from(u) == TcpRoles[u + 1]

\* tcp_start_state(role)
tcp_start_state(role) == IF role = "Client" THEN "Closed" ELSE "Listen"

ReleaseCauses == <<"Unknown", "Timeout", "PassiveClose", "ActiveClose">>

\* `cause as u8`
ReleaseCause_as_u8(cause) ==
    (CHOOSE i \in 1..Len(ReleaseCauses) : ReleaseCauses[i] = cause) - 1

(***************************************************************************)
(* ConRecord (lib.rs).                                                     *)
(***************************************************************************)
\* state: [u8; 7]
STATE_LEN == 7
\* stamps: [u32; 6]
STAMPS_LEN == 6
TIME_STAMP_REDUCTION_FACTOR == 1000

\* Storable::new for ConRecord
ConRecord_new ==
    [ role |-> TcpRole_as_u8("Client"),
      server_index |-> 0,
      release_cause |-> ReleaseCause_as_u8("Unknown"),
      state_count |-> 0,
      base_stamp |-> 0,
      state |-> [i \in 0..(STATE_LEN - 1) |-> TcpState_as_u8("Closed")],
      stamps |-> [i \in 0..(STAMPS_LEN - 1) |-> 0],
      port |-> 0,
      client_ip |-> 0,
      client_port |-> 0,
      sent_payload_packets |-> 0,
      recv_payload_packets |-> 0,
      uid |-> 0,
      server_state |-> TcpState_as_u8("Listen") ]

\* ConRecord::role
role(r) == TcpRole_from(r.role)

\* ConRecord::init; now is the cycle counter read for uid
init(r, new_role, port, sock, now) ==
    LET s == IF sock = None THEN <<0, 0>> ELSE sock[1]
        r1 == [r EXCEPT !.state_count = 0,
                        !.base_stamp = 0,
                        !.sent_payload_packets = 0,
                        !.recv_payload_packets = 0,
                        !.uid = now,
                        !.server_index = 0,
                        !.client_ip = s[1],
                        !.client_port = s[2],
                        !.role = TcpRole_as_u8(new_role),
                        !.port = port]
    IN  [r1 EXCEPT !.server_state = TcpState_as_u8(tcp_start_state(role(r1)))]

\* a push_state that overwrites the newest entry of a full history
push_state_saturating(r, state, now) ==
    LET n == IF r.state_count >= STATE_LEN THEN STATE_LEN - 1 ELSE r.state_count
        r1 == [r EXCEPT !.state[n] = TcpState_as_u8(state)]
        r2 == IF n = 0
              THEN [r1 EXCEPT !.base_stamp = now]
              ELSE [r1 EXCEPT !.stamps[n - 1] =
                        ((now - r.base_stamp) \div TIME_STAMP_REDUCTION_FACTOR) % U32Mod]
    IN  [rec |-> [r2 EXCEPT !.state_count = n + 1], panic |-> FALSE]

\* a push_state that takes the counter reading of every push as base_stamp
push_state_rebase(r, state, now) ==
    IF r.state_count >= STATE_LEN
    THEN [rec |-> r, panic |-> TRUE]
    ELSE LET r1 == [r EXCEPT !.state[r.state_count] = TcpState_as_u8(state),
                             !.base_stamp = now]
             r2 == IF r.state_count = 0
                   THEN r1
                   ELSE [r1 EXCEPT !.stamps[r.state_count - 1] = 0]
         IN  [rec |-> [r2 EXCEPT !.state_count = r.state_count + 1], panic |-> FALSE]

\* HasTcpState::push_state; now is the cycle counter read for the stamp (it
\* never runs backwards, so now - base_stamp does not underflow).  The write
\* to state[state_count] is bounds checked and panics before anything is
\* stored.
push_state(r, state, now) ==
    IF r.state_count >= STATE_LEN
    THEN [rec |-> r, panic |-> TRUE]
    ELSE LET r1 == [r EXCEPT !.state[r.state_count] = TcpState_as_u8(state)]
             r2 == IF r.state_count = 0
                   THEN [r1 EXCEPT !.base_stamp = now]
                   ELSE [r1 EXCEPT !.stamps[r.state_count - 1] =
                             ((now - r.base_stamp) \div TIME_STAMP_REDUCTION_FACTOR) % U32Mod]
         IN  [rec |-> [r2 EXCEPT !.state_count = r.state_count + 1], panic |-> FALSE]

\* HasTcpState::last_state
last_state(r) ==
    IF r.state_count = 0
    THEN tcp_start_state(role(r))
    ELSE TcpState_from(r.state[r.state_count - 1])

\* a states that copies state[i] to result[i] instead of result[i + 1]
states_shifted(r) ==
    [k \in 1..(r.state_count + 1) |->
        IF k > r.state_count THEN tcp_start_state(role(r))
        ELSE TcpState_from(r.state[k - 1])]

\* HasTcpState::states: result[0] is the start state, result[i + 1] is
\* state[i]; the sequence position k is result[k - 1]
states(r) ==
    [k \in 1..(r.state_count + 1) |->
        IF k = 1 THEN tcp_start_state(role(r))
        ELSE TcpState_from(r.state[k - 2])]

\* HasTcpState::get_first_stamp
get_first_stamp(r) == IF r.state_count > 0 THEN Some(r.base_stamp) ELSE None

\* HasTcpState::get_last_stamp
get_last_stamp(r) ==
    IF r.state_count = 0 THEN None
    ELSE IF r.state_count = 1 THEN Some(r.base_stamp)
    ELSE Some(r.base_stamp + r.stamps[r.state_count - 2] * TIME_STAMP_REDUCTION_FACTOR)

\* HasTcpState::deltas_to_base_stamp: stamps[0..state_count - 1] as a vector
deltas_to_base_stamp(r) ==
    IF r.state_count >= 2
    THEN [k \in 1..(r.state_count - 1) |-> r.stamps[k - 1]]
    ELSE <<>>

\* ReleaseCause::from(u8)
ReleaseCause_from(u) == ReleaseCauses[u + 1]

\* HasConData::sock
HasConData_sock(r) == <<r.client_ip, r.client_port>>

\* a set_sock that takes the port of the socket as the record's port too
set_sock_and_port(r, s) ==
    [r EXCEPT !.client_ip = s[1], !.client_port = s[2], !.port = s[2]]

\* HasConData::set_sock
set_sock(r, s) == [r EXCEPT !.client_ip = s[1], !.client_port = s[2]]

\* HasConData::port
HasConData_port(r) == r.port

\* HasConData::set_port
set_port(r, p) == [r EXCEPT !.port = p]

\* HasConData::uid
uid(r) == r.uid

\* a set_uid that keeps the uid init assigned
set_uid_once(r, new_uid) == r

\* HasConData::set_uid
set_uid(r, new_uid) == [r EXCEPT !.uid = new_uid]

\* HasConData::server_index
server_index(r) == r.server_index

\* HasConData::set_server_index, index a u8
set_server_index(r, index) == [r EXCEPT !.server_index = index]

\* HasConData::sent_payload_packets
sent_payload_packets(r) == r.sent_payload_packets

\* HasConData::recv_payload_packets
recv_payload_packets(r) == r.recv_payload_packets

\* the two build profiles: overflow checks on (debug) or off (release)
Builds == {"debug", "release"}

PanicAddOverflow == "attempt to add with overflow"

\* HasConData::inc_sent_payload_pkts: `+= 1` on a u16 at u16::MAX panics
\* in a debug build and wraps to 0 in a release build
inc_sent_payload_pkts(r, build) ==
    IF r.sent_payload_packets = U16Max /\ build = "debug"
    THEN [rec |-> r, ret |-> None, panic |-> TRUE]
    ELSE LET n == (r.sent_payload_packets + 1) % (U16Max + 1)
         IN  [rec |-> [r EXCEPT !.sent_payload_packets = n],
              ret |-> Some(n), panic |-> FALSE]

\* HasConData::inc_recv_payload_pkts
inc_recv_payload_pkts(r, build) ==
    IF r.recv_payload_packets = U16Max /\ build = "debug"
    THEN [rec |-> r, ret |-> None, panic |-> TRUE]
    ELSE LET n == (r.recv_payload_packets + 1) % (U16Max + 1)
         IN  [rec |-> [r EXCEPT !.recv_payload_packets = n],
              ret |-> Some(n), panic |-> FALSE]

\* HasConData::server_state
server_state(r) == TcpState_from(r.server_state)

\* a set_server_state that also marks the record as the server side
set_server_state_role(r, state) ==
    [r EXCEPT !.server_state = TcpState_as_u8(state), !.role = TcpRole_as_u8("Server")]

\* HasConData::set_server_state
set_server_state(r, state) == [r EXCEPT !.server_state = TcpState_as_u8(state)]

\* HasTcpState::release_cause
release_cause(r) == ReleaseCause_from(r.release_cause)

\* a set_release_cause that keeps a cause once one is recorded
set_release_cause_first(r, cause) ==
    IF r.release_cause = ReleaseCause_as_u8("Unknown")
    THEN [r EXCEPT !.release_cause = ReleaseCause_as_u8(cause)]
    ELSE r

\* HasTcpState::set_release_cause
set_release_cause(r, cause) == [r EXCEPT !.release_cause = ReleaseCause_as_u8(cause)]

\* Storable::new of the payload type T of Store64<T>
Payload_new == 0

(***************************************************************************)
(* RecordStore (recstore.rs).                                              *)
(***************************************************************************)
\* RecordStore::with_capacity
RecordStore_with_capacity(capacity) ==
    [ store |-> [i \in 0..(capacity - 1) |-> ConRecord_new],
      used_slots |-> 0 ]

\* Vec::len of the backing vector
VecLen(v) == Cardinality(DOMAIN v)

\* a get_unused_slot that wraps one call too late
RecordStore_get_unused_slot_late(s) ==
    LET wrap == s.used_slots > VecLen(s.store)
        used == IF wrap THEN 0 ELSE s.used_slots
    IN  [ store |-> [s EXCEPT !.used_slots = used + 1],
          slot |-> used,
          warned |-> wrap ]

\* a get_unused_slot that keeps counting after the wrap
RecordStore_get_unused_slot_logical(s) ==
    LET wrap == s.used_slots >= VecLen(s.store)
    IN  [ store |-> [s EXCEPT !.used_slots = s.used_slots + 1],
          slot |-> s.used_slots,
          warned |-> wrap ]

\* a get_unused_slot that hands the slot out with a new record in it
RecordStore_get_unused_slot_clearing(s) ==
    LET wrap == s.used_slots >= VecLen(s.store)
        used == IF wrap THEN 0 ELSE s.used_slots
    IN  [ store |-> [s EXCEPT !.used_slots = used + 1, !.store[used] = ConRecord_new],
          slot |-> (used + 1) - 1,
          warned |-> wrap ]

\* a get_unused_slot that returns the counter instead of the slot counted
RecordStore_get_unused_slot_next(s) ==
    LET wrap == s.used_slots >= VecLen(s.store)
        used == IF wrap THEN 0 ELSE s.used_slots
    IN  [ store |-> [s EXCEPT !.used_slots = used + 1],
          slot |-> used + 1,
          warned |-> wrap ]

\* RecordStore::get_unused_slot: the store afterwards, the slot returned and
\* whether the wrap warning was logged
RecordStore_get_unused_slot(s) ==
    LET wrap == s.used_slots >= VecLen(s.store)
        used == IF wrap THEN 0 ELSE s.used_slots
    IN  [ store |-> [s EXCEPT !.used_slots = used + 1],
          slot |-> (used + 1) - 1,
          warned |-> wrap ]

\* RecordStore::len
RecordStore_len(s) == s.used_slots

\* RecordStore::get
RecordStore_get(s, slot) ==
    IF slot < s.used_slots THEN Some(s.store[slot]) ELSE None

\* RecordStore::get_mut: the record behind the mutable reference
RecordStore_get_mut(s, slot) ==
    IF slot < s.used_slots THEN Some(s.store[slot]) ELSE None

\* a write through the reference get_mut returned for slot
WithRecord(s, slot, r) == [s EXCEPT !.store[slot] = r]

\* the comparators passed to sort_by: |a, b| a.port().cmp(&b.port()) and
\* |a, b| b.uid().cmp(&a.uid())
Comparators == {"by_port", "by_uid_desc"}

\* the Ordering a comparator returns for the records a and b
compare(cmp, a, b) ==
    LET x == IF cmp = "by_port" THEN HasConData_port(a) ELSE uid(b)
        y == IF cmp = "by_port" THEN HasConData_port(b) ELSE uid(a)
    IN  IF x < y THEN "Less" ELSE IF x = y THEN "Equal" ELSE "Greater"

\* x put into the sorted sequence v behind every element it does not
\* precede
RECURSIVE InsertStable(_, _, _)
InsertStable(v, x, cmp) ==
    IF v = <<>> THEN <<x>>
    ELSE IF compare(cmp, x, v[1]) = "Less" THEN <<x>> \o v
    ELSE <<v[1]>> \o InsertStable(Tail(v), x, cmp)

\* slice::sort_by, a stable sort: the elements of v in comparator order,
\* equal ones in the order they had
RECURSIVE slice_sort_by(_, _)
slice_sort_by(v, cmp) ==
    IF v = <<>> THEN <<>>
    ELSE InsertStable(slice_sort_by(SubSeq(v, 1, Len(v) - 1), cmp), v[Len(v)], cmp)

\* the slice vec[0..k] as a sequence
Slice(vec, k) == [i \in 1..k |-> vec[i - 1]]

\* the vector after its slice vec[0..k] was replaced by the sequence v
WithSlice(vec, k, v) == [i \in DOMAIN vec |-> IF i < k THEN v[i + 1] ELSE vec[i]]

\* the range 0..k of a slice expression vec[0..k] lies within the vector;
\* the expression panics otherwise
SliceInBounds(vec, k) == 0 <= k /\ k <= VecLen(vec)

\* RecordStore::iter: the records the iterator yields
RecordStore_iter(s) == Slice(s.store, s.used_slots)

\* a sort_by that sorts the whole backing vector
RecordStore_sort_by_all(s, cmp) ==
    [s EXCEPT !.store = WithSlice(s.store, VecLen(s.store),
                                  slice_sort_by(Slice(s.store, VecLen(s.store)), cmp))]

\* RecordStore::sort_by
RecordStore_sort_by(s, cmp) ==
    [s EXCEPT !.store = WithSlice(s.store, s.used_slots,
                                  slice_sort_by(Slice(s.store, s.used_slots), cmp))]

(***************************************************************************)
(* ConRecordOperations (recstore.rs): the methods of a connection handle,  *)
(* each on the shared store and the slot con_rec() of the handle.          *)
(***************************************************************************)
\* u8::MAX + 1: `index as u8` keeps the index modulo U8Mod
U8Mod == 256

PanicUnwrap == "called Option::unwrap() on a None value"
PanicStateIndex == "state: index out of bounds"

\* a handle method that reads: unwrap of get, then the record's getter
HandleRead(s, slot, value) ==
    IF RecordStore_get(s, slot) = None
    THEN [ret |-> None, panic |-> PanicUnwrap]
    ELSE [ret |-> Some(value), panic |-> "none"]

\* a writing handle method that does nothing when get_mut returns None
HandleWrite_lenient(s, slot, r) ==
    IF RecordStore_get_mut(s, slot) = None
    THEN [store |-> s, panic |-> "none"]
    ELSE [store |-> WithRecord(s, slot, r), panic |-> "none"]

\* a handle method that writes: unwrap of get_mut, then the record's setter
HandleWrite(s, slot, r) ==
    IF RecordStore_get_mut(s, slot) = None
    THEN [store |-> s, panic |-> PanicUnwrap]
    ELSE [store |-> WithRecord(s, slot, r), panic |-> "none"]

\* ConRecordOperations::port
ConRecordOperations_port(s, slot) ==
    HandleRead(s, slot, HasConData_port(s.store[slot]))

\* ConRecordOperations::server_index
ConRecordOperations_server_index(s, slot) ==
    HandleRead(s, slot, server_index(s.store[slot]))

\* a handle set_server_index that writes the record of slot 0
ConRecordOperations_set_server_index_slot0(s, slot, index) ==
    HandleWrite(s, 0, set_server_index(s.store[0], index % U8Mod))

\* ConRecordOperations::set_server_index
ConRecordOperations_set_server_index(s, slot, index) ==
    HandleWrite(s, slot, set_server_index(s.store[slot], index % U8Mod))

\* ConRecordOperations::last_state
ConRecordOperations_last_state(s, slot) ==
    HandleRead(s, slot, last_state(s.store[slot]))

\* ConRecordOperations::states
ConRecordOperations_states(s, slot) ==
    HandleRead(s, slot, states(s.store[slot]))

\* ConRecordOperations::push_state; now is the cycle counter read
ConRecordOperations_push_state(s, slot, state, now) ==
    IF RecordStore_get_mut(s, slot) = None
    THEN [store |-> s, panic |-> PanicUnwrap]
    ELSE LET r == push_state(s.store[slot], state, now)
         IN  IF r.panic THEN [store |-> s, panic |-> PanicStateIndex]
             ELSE [store |-> WithRecord(s, slot, r.rec), panic |-> "none"]

\* ConRecordOperations::con_established: pushes Established
ConRecordOperations_con_established(s, slot, now) ==
    ConRecordOperations_push_state(s, slot, "Established", now)

\* ConRecordOperations::server_syn_sent: pushes SynSent
ConRecordOperations_server_syn_sent(s, slot, now) ==
    ConRecordOperations_push_state(s, slot, "SynSent", now)

\* ConRecordOperations::set_release_cause
ConRecordOperations_set_release_cause(s, slot, cause) ==
    HandleWrite(s, slot, set_release_cause(s.store[slot], cause))

\* ConRecordOperations::set_port
ConRecordOperations_set_port(s, slot, p) ==
    HandleWrite(s, slot, set_port(s.store[slot], p))

\* ConRecordOperations::sock: an address of 0 reads as None
ConRecordOperations_sock(s, slot) ==
    IF RecordStore_get(s, slot) = None
    THEN [ret |-> None, panic |-> PanicUnwrap]
    ELSE LET so == HasConData_sock(s.store[slot])
         IN  [ret |-> Some(IF so[1] # 0 THEN Some(so) ELSE None), panic |-> "none"]

\* ConRecordOperations::set_sock
ConRecordOperations_set_sock(s, slot, so) ==
    HandleWrite(s, slot, set_sock(s.store[slot], so))

\* ConRecordOperations::set_uid
ConRecordOperations_set_uid(s, slot, new_uid) ==
    HandleWrite(s, slot, set_uid(s.store[slot], new_uid))

\* ConRecordOperations::get_uid
ConRecordOperations_get_uid(s, slot) ==
    HandleRead(s, slot, uid(s.store[slot]))

(***************************************************************************)
(* Store64 (recstore.rs).                                                  *)
(***************************************************************************)
\* Store64::with_capacity
Store64_with_capacity(capacity) ==
    [ store_0 |-> [i \in 0..(capacity - 1) |-> ConRecord_new],
      store_1 |-> [i \in 0..(capacity - 1) |-> Payload_new],
      used_slots |-> 0 ]

\* a get_unused_slot that never wraps
Store64_get_unused_slot_nowrap(s) ==
    [ store |-> [s EXCEPT !.used_slots = s.used_slots + 1],
      slot |-> (s.used_slots + 1) - 1,
      warned |-> FALSE ]

\* Store64::get_unused_slot
Store64_get_unused_slot(s) ==
    LET wrap == \/ s.used_slots >= VecLen(s.store_0)
                \/ s.used_slots < VecLen(s.store_1)
        used == IF wrap THEN 0 ELSE s.used_slots
    IN  [ store |-> [s EXCEPT !.used_slots = used + 1],
          slot |-> (used + 1) - 1,
          warned |-> wrap ]

\* Store64::len
Store64_len(s) == s.used_slots

\* Store64::get
Store64_get(s, slot) ==
    IF slot < s.used_slots THEN Some(s.store_0[slot]) ELSE None

\* Store64::get_mut: the record behind the mutable reference
Store64_get_mut(s, slot) ==
    IF slot < s.used_slots THEN Some(s.store_0[slot]) ELSE None

\* Store64::get_mut_1: the payload behind the mutable reference
Store64_get_mut_1(s, slot) ==
    IF slot < s.used_slots THEN Some(s.store_1[slot]) ELSE None

\* Store64::iter_0 and Store64::iter_1: what the iterators yield
Store64_iter_0(s) == Slice(s.store_0, s.used_slots)
Store64_iter_1(s) == Slice(s.store_1, s.used_slots)

\* Store64::get_1
Store64_get_1(s, slot) ==
    IF slot < s.used_slots THEN Some(s.store_1[slot]) ELSE None

\* a sort_0_by that sorts the whole of store_0
Store64_sort_0_by_all(s, cmp) ==
    [s EXCEPT !.store_0 = WithSlice(s.store_0, VecLen(s.store_0),
                                    slice_sort_by(Slice(s.store_0, VecLen(s.store_0)), cmp))]

\* Store64::sort_0_by: store_0 alone is sorted
Store64_sort_0_by(s, cmp) ==
    [s EXCEPT !.store_0 = WithSlice(s.store_0, s.used_slots,
                                    slice_sort_by(Slice(s.store_0, s.used_slots), cmp))]

(***************************************************************************)
(* Sock2Index (utils.rs).                                                  *)
(***************************************************************************)
\* port_maps: vec![...; 8] and free_maps: (0..8)
NumBanks == 8
\* u16 arithmetic is modulo U16Mod
U16Mod == U16Max + 1
\* [u16; 0xFFFF]: one entry per port 1..u16::MAX
PortMapLen == U16Max

PanicBanks == "currently only 8 IP source addresses are supported"
PanicPortAssert == "assertion failed: port > 0"
PanicPortIndex == "port - 1: subtraction overflow or index out of bounds"

\* BTreeMap::insert
MapInsert(m, k, v) == [x \in DOMAIN m \cup {k} |-> IF x = k THEN v ELSE m[x]]

\* `(port - 1) as usize`: a debug build panics on 0 - 1, a release build
\* wraps to u16::MAX, which is no index of the array; either way port 0 ends
\* in a panic, which PortIndexOk tells
PortIndex(port) == (port + U16Mod - 1) % U16Mod
PortIndexOk(port) == port >= 1 /\ PortIndex(port) < PortMapLen

\* a new with seven banks on the free list
Sock2Index_new_short ==
    [ sock_tree |-> [x \in {} |-> 0],
      port_maps |-> [b \in 0..(NumBanks - 1) |-> [i \in 0..(PortMapLen - 1) |-> 0]],
      free_maps |-> [i \in 1..(NumBanks - 1) |-> i - 1] ]

\* Sock2Index::new
Sock2Index_new ==
    [ sock_tree |-> [x \in {} |-> 0],
      port_maps |-> [b \in 0..(NumBanks - 1) |-> [i \in 0..(PortMapLen - 1) |-> 0]],
      free_maps |-> [i \in 1..NumBanks |-> i - 1] ]

\* Sock2Index::get: the result and the panic, if any
Sock2Index_get(ix, sock) ==
    LET ip == sock[1]
        port == sock[2]
    IN  IF ~(port > 0) THEN [ret |-> None, panic |-> PanicPortAssert]
        ELSE IF ip \notin DOMAIN ix.sock_tree THEN [ret |-> None, panic |-> "none"]
        ELSE IF ~PortIndexOk(port) THEN [ret |-> None, panic |-> PanicPortIndex]
        ELSE LET e == ix.port_maps[ix.sock_tree[ip]][PortIndex(port)]
             IN  [ret |-> IF e = 0 THEN None ELSE Some(e), panic |-> "none"]

\* an insert that writes the entry of port at index port instead of port - 1
Sock2Index_insert_off_by_one(ix, sock, index) ==
    LET ip == sock[1]
        is_new_ip == ip \notin DOMAIN ix.sock_tree
    IN  IF is_new_ip /\ ix.free_maps = <<>>
        THEN [idx |-> ix, panic |-> PanicBanks]
        ELSE LET ix1 == IF is_new_ip
                        THEN [ix EXCEPT !.sock_tree = MapInsert(@, ip, Head(ix.free_maps)),
                                        !.free_maps = Tail(@)]
                        ELSE ix
                 port_map_ix == ix1.sock_tree[ip]
             IN  IF sock[2] >= PortMapLen
                 THEN [idx |-> ix1, panic |-> PanicPortIndex]
                 ELSE [idx |-> [ix1 EXCEPT !.port_maps[port_map_ix][sock[2]] = index],
                       panic |-> "none"]

\* an insert that maps a new address to the first free bank and leaves the
\* bank on the free list
Sock2Index_insert_keep_free(ix, sock, index) ==
    LET ip == sock[1]
        is_new_ip == ip \notin DOMAIN ix.sock_tree
    IN  IF is_new_ip /\ ix.free_maps = <<>>
        THEN [idx |-> ix, panic |-> PanicBanks]
        ELSE LET ix1 == IF is_new_ip
                        THEN [ix EXCEPT !.sock_tree = MapInsert(@, ip, Head(ix.free_maps))]
                        ELSE ix
                 port_map_ix == ix1.sock_tree[ip]
             IN  IF ~PortIndexOk(sock[2])
                 THEN [idx |-> ix1, panic |-> PanicPortIndex]
                 ELSE [idx |-> [ix1 EXCEPT !.port_maps[port_map_ix][PortIndex(sock[2])] = index],
                       panic |-> "none"]

\* Sock2Index::insert: the index afterwards and the panic, if any.  The
\* bank is taken and mapped before the entry is written, so a panic of the
\* write leaves the bank assigned.
Sock2Index_insert(ix, sock, index) ==
    LET ip == sock[1]
        is_new_ip == ip \notin DOMAIN ix.sock_tree
    IN  IF is_new_ip /\ ix.free_maps = <<>>
        THEN [idx |-> ix, panic |-> PanicBanks]
        ELSE LET ix1 == IF is_new_ip
                        THEN [ix EXCEPT !.sock_tree = MapInsert(@, ip, Head(ix.free_maps)),
                                        !.free_maps = Tail(@)]
                        ELSE ix
                 port_map_ix == ix1.sock_tree[ip]
             IN  IF ~PortIndexOk(sock[2])
                 THEN [idx |-> ix1, panic |-> PanicPortIndex]
                 ELSE [idx |-> [ix1 EXCEPT !.port_maps[port_map_ix][PortIndex(sock[2])] = index],
                       panic |-> "none"]

\* a remove that returns Some(old) without looking at old
Sock2Index_remove_some(ix, sock) ==
    IF sock[1] \notin DOMAIN ix.sock_tree
    THEN [idx |-> ix, ret |-> None, panic |-> "none"]
    ELSE IF ~PortIndexOk(sock[2])
    THEN [idx |-> ix, ret |-> None, panic |-> PanicPortIndex]
    ELSE LET pm_ix == ix.sock_tree[sock[1]]
             old == ix.port_maps[pm_ix][PortIndex(sock[2])]
         IN  [ idx |-> [ix EXCEPT !.port_maps[pm_ix][PortIndex(sock[2])] = 0],
               ret |-> Some(old),
               panic |-> "none" ]

\* a remove that gives the bank back once its last entry is cleared
Sock2Index_remove_release(ix, sock) ==
    IF sock[1] \notin DOMAIN ix.sock_tree
    THEN [idx |-> ix, ret |-> None, panic |-> "none"]
    ELSE IF ~PortIndexOk(sock[2])
    THEN [idx |-> ix, ret |-> None, panic |-> PanicPortIndex]
    ELSE LET pm_ix == ix.sock_tree[sock[1]]
             old == ix.port_maps[pm_ix][PortIndex(sock[2])]
             ix1 == [ix EXCEPT !.port_maps[pm_ix][PortIndex(sock[2])] = 0]
             empty == \A i \in DOMAIN ix1.port_maps[pm_ix] : ix1.port_maps[pm_ix][i] = 0
         IN  [ idx |-> IF empty
                       THEN [ix1 EXCEPT !.sock_tree = [x \in DOMAIN @ \ {sock[1]} |-> @[x]],
                                        !.free_maps = Append(@, pm_ix)]
                       ELSE ix1,
               ret |-> IF old = 0 THEN None ELSE Some(old),
               panic |-> "none" ]

\* a remove that clears every entry of the bank of the address
Sock2Index_remove_bank(ix, sock) ==
    IF sock[1] \notin DOMAIN ix.sock_tree
    THEN [idx |-> ix, ret |-> None, panic |-> "none"]
    ELSE IF ~PortIndexOk(sock[2])
    THEN [idx |-> ix, ret |-> None, panic |-> PanicPortIndex]
    ELSE LET pm_ix == ix.sock_tree[sock[1]]
             old == ix.port_maps[pm_ix][PortIndex(sock[2])]
         IN  [ idx |-> [ix EXCEPT !.port_maps[pm_ix] = [i \in DOMAIN @ |-> 0]],
               ret |-> IF old = 0 THEN None ELSE Some(old),
               panic |-> "none" ]

\* Sock2Index::remove: the index afterwards, the result and the panic, if any
Sock2Index_remove(ix, sock) ==
    IF sock[1] \notin DOMAIN ix.sock_tree
    THEN [idx |-> ix, ret |-> None, panic |-> "none"]
    ELSE IF ~PortIndexOk(sock[2])
    THEN [idx |-> ix, ret |-> None, panic |-> PanicPortIndex]
    ELSE LET pm_ix == ix.sock_tree[sock[1]]
             old == ix.port_maps[pm_ix][PortIndex(sock[2])]
         IN  [ idx |-> [ix EXCEPT !.port_maps[pm_ix][PortIndex(sock[2])] = 0],
               ret |-> IF old = 0 THEN None ELSE Some(old),
               panic |-> "none" ]

\* BTreeMap::values visits the keys in ascending order: the keys of S as
\* a sequence
RECURSIVE KeysAscending(_)
KeysAscending(S) ==
    IF S = {} THEN <<>>
    ELSE LET m == CHOOSE x \in S : \A y \in S : x <= y
         IN  <<m>> \o KeysAscending(S \ {m})

\* bank.iter().filter(|ix| **ix != 0) from index i on
RECURSIVE NonZeroFrom(_, _)
NonZeroFrom(bank, i) ==
    IF i >= PortMapLen THEN <<>>
    ELSE (IF bank[i] # 0 THEN <<bank[i]>> ELSE <<>>) \o NonZeroFrom(bank, i + 1)

\* flat_map over the bank ids in the sequence banks
RECURSIVE FlatMapBanks(_, _)
FlatMapBanks(ix, banks) ==
    IF banks = <<>> THEN <<>>
    ELSE NonZeroFrom(ix.port_maps[banks[1]], 0) \o FlatMapBanks(ix, Tail(banks))

\* a values that visits the banks in the order of their ids
Sock2Index_values_by_bank(ix) ==
    FlatMapBanks(ix, KeysAscending({ix.sock_tree[ip] : ip \in DOMAIN ix.sock_tree}))

\* Sock2Index::values
Sock2Index_values(ix) ==
    LET ips == KeysAscending(DOMAIN ix.sock_tree)
    IN  FlatMapBanks(ix, [k \in 1..Len(ips) |-> ix.sock_tree[ips[k]]])

(***************************************************************************)
(* The stores under a sequence of get_unused_slot calls.                   *)
(***************************************************************************)
\* fresh stores of the given capacity
StoreFresh(capacity) ==
    /\ cap = capacity
    /\ rs = RecordStore_with_capacity(capacity)
    /\ rs_slots = <<>>
    /\ rs_warns = 0
    /\ s64 = Store64_with_capacity(capacity)
    /\ s64_slots = <<>>
    /\ s64_warns = 0

\* a record as the store holds it before its first use
RecFresh ==
    /\ rec = ConRecord_new
    /\ pc = "allocated"
    /\ pushed = <<>>
    /\ clock = 0

\* a fresh index
IdxFresh ==
    /\ idx = Sock2Index_new
    /\ last = [op |-> "new", sock |-> <<0, 0>>, index |-> 0, ret |-> None]
    /\ ips_seen = {}

\* the connection handles: two connection objects over one store
Handles == {1, 2}

\* no handle holds a slot yet, nothing was called, no port vector was drawn
HandleFresh ==
    /\ handles = [h \in Handles |-> None]
    /\ call = [name |-> "new", h |-> 0, arg |-> None, ret |-> None]
    /\ cause_sets = [slot \in 0..(cap - 1) |-> 0]
    /\ ncalls = 0
    /\ shuffled = <<>>
    /\ incs = [sent |-> 0, recv |-> 0]

InitStore ==
    /\ \E capacity \in 1..MaxCap : StoreFresh(capacity)
    /\ RecFresh
    /\ IdxFresh
    /\ HandleFresh
    /\ fault = "none"

\* one call of RecordStore::get_unused_slot
RsGetUnusedSlot ==
    /\ Len(rs_slots) < MaxCalls
    /\ LET r == RecordStore_get_unused_slot(rs)
       IN  /\ rs' = r.store
           /\ rs_slots' = Append(rs_slots, r.slot)
           /\ rs_warns' = rs_warns + (IF r.warned THEN 1 ELSE 0)
    /\ UNCHANGED <<hdlVars, shuffled, incs, cap, s64, s64_slots, s64_warns, recVars, idxVars, fault>>

\* one call of Store64::get_unused_slot
S64GetUnusedSlot ==
    /\ Len(s64_slots) < MaxCalls
    /\ LET r == Store64_get_unused_slot(s64)
       IN  /\ s64' = r.store
           /\ s64_slots' = Append(s64_slots, r.slot)
           /\ s64_warns' = s64_warns + (IF r.warned THEN 1 ELSE 0)
    /\ UNCHANGED <<hdlVars, shuffled, incs, cap, rs, rs_slots, rs_warns, recVars, idxVars, fault>>

NextStore == RsGetUnusedSlot \/ S64GetUnusedSlot

SpecStore == InitStore /\ [][NextStore]_vars

(***************************************************************************)
(* RecordStore allocation: C1, C2, C3.                                     *)
(***************************************************************************)
\* C1: after exactly N calls on a fresh RecordStore of capacity N no wrap
\* has been logged and len() = N; after N+1 calls exactly one wrap has been
\* logged, len() = 1 and the slot of call N+1 is physical index 0, the
\* record get returns for it being store[0].
C1_WrapAfterCapacity ==
    /\ Len(rs_slots) = cap => rs_warns = 0 /\ RecordStore_len(rs) = cap
    /\ Len(rs_slots) = cap + 1 =>
          /\ rs_warns = 1
          /\ RecordStore_len(rs) = 1
          /\ rs_slots[cap + 1] = 0
          /\ RecordStore_get(rs, rs_slots[cap + 1]) = Some(rs.store[0])

C1_Witness == cap = 3 /\ Len(rs_slots) = cap + 1 /\ rs_warns = 1

\* C2 as claimed: the first slot is 0 and every later slot is larger than
\* all slots returned before it, also across a wrap.
C2_StrictlyIncreasing ==
    /\ Len(rs_slots) >= 1 => rs_slots[1] = 0
    /\ \A i, j \in 1..Len(rs_slots) : i < j => rs_slots[i] < rs_slots[j]

\* C2 amended: the slots are physical indices: call k returns (k-1) mod N,
\* so the numbers rise by one from 0 up to N-1 and restart at 0 with every
\* wrap.
C2_SlotsArePhysical ==
    \A k \in 1..Len(rs_slots) : rs_slots[k] = (k - 1) % cap

C2_Witness == cap = 4 /\ Len(rs_slots) = 5 /\ rs_slots[5] = 0

\* C3 as claimed: len() = min(slots ever issued, N).
C3_LenIsMin ==
    RecordStore_len(rs) = IF Len(rs_slots) < cap THEN Len(rs_slots) ELSE cap

\* C3 amended: len() is the number of slots issued since the last wrap:
\* 0 on a fresh store, ((k-1) mod N) + 1 after k >= 1 calls.
C3_LenSinceWrap ==
    RecordStore_len(rs) =
        IF Len(rs_slots) = 0 THEN 0 ELSE ((Len(rs_slots) - 1) % cap) + 1

C3_Witness == cap = 3 /\ Len(rs_slots) = 5 /\ RecordStore_len(rs) = 2

(***************************************************************************)
(* Store64 against RecordStore: C4.                                        *)
(***************************************************************************)
\* C4: after the same number of get_unused_slot calls on fresh stores of
\* the same capacity, Store64 has returned the same slots as RecordStore,
\* reports the same len() and has logged the same number of wraps.
C4_Store64LikeRecordStore ==
    Len(s64_slots) = Len(rs_slots) =>
        /\ s64_slots = rs_slots
        /\ Store64_len(s64) = RecordStore_len(rs)
        /\ s64_warns = rs_warns

(***************************************************************************)
(* The slot a store hands out: C22.                                        *)
(***************************************************************************)
\* C22: get_unused_slot returns on every call, however many slots were
\* issued before; a call on a full RecordStore wraps and logs one warning;
\* and the slot returned is valid right away: get and get_mut of the slot
\* last returned give the record at that position of the store, for
\* RecordStore and for Store64.
C22_IssuedSlotIsValid ==
    /\ fault = "none"
    /\ Len(rs_slots) >= 1 =>
          LET slot == rs_slots[Len(rs_slots)]
          IN  /\ rs_warns = (Len(rs_slots) - 1) \div cap
              /\ RecordStore_get(rs, slot) # None
              /\ RecordStore_get_mut(rs, slot) # None
              /\ RecordStore_get(rs, slot) = Some(rs.store[slot])
              /\ RecordStore_get_mut(rs, slot) = Some(rs.store[slot])
    /\ Len(s64_slots) >= 1 =>
          LET slot == s64_slots[Len(s64_slots)]
          IN  /\ Store64_get(s64, slot) # None
              /\ Store64_get_mut(s64, slot) # None
              /\ Store64_get(s64, slot) = Some(s64.store_0[slot])
              /\ Store64_get_mut(s64, slot) = Some(s64.store_0[slot])

\* both stores of capacity 2 have handed out slots beyond two wraps
C22_Witness ==
    /\ cap = 2
    /\ Len(rs_slots) = 2 * cap + 1
    /\ rs_warns = 2
    /\ Len(s64_slots) = 2 * cap + 1
    /\ s64_warns >= 1

(***************************************************************************)
(* One connection record through its life: the slot is handed out with     *)
(* whatever an earlier connection left in it, init makes it live, then     *)
(* states are pushed.                                                      *)
(***************************************************************************)
\* the states passed to push_state
PushStates == {TcpStates[i] : i \in 3..(2 + NumPushStates)}

RECURSIVE PushAll(_, _, _)
\* push the states of a sequence, the counter advancing ClockStep per read
PushAll(r, sts, now) ==
    IF sts = <<>> THEN r
    ELSE PushAll(push_state(r, Head(sts), now + ClockStep).rec, Tail(sts), now + ClockStep)

\* the record of a closed server connection: a full history, payload
\* counted in both directions, a server index and a release cause
UsedRecord ==
    LET opened == init(ConRecord_new, "Server", 1, Some(<<1, 1>>), ClockStep)
        closed == PushAll(opened,
                          <<"SynReceived", "Established", "FinWait", "Closing",
                            "LastAck", "TimeWait", "Closed">>,
                          ClockStep)
        counted == inc_recv_payload_pkts(
                       inc_sent_payload_pkts(closed, "release").rec, "release").rec
    IN  set_release_cause(set_server_index(counted, 1), "Timeout")

\* what a slot may hold when it is handed out
PriorRecords == {ConRecord_new, UsedRecord}

InitRec ==
    /\ StoreFresh(1)
    /\ rec \in PriorRecords
    /\ pc = "allocated"
    /\ pushed = <<>>
    /\ clock = 8 * ClockStep
    /\ IdxFresh
    /\ HandleFresh
    /\ fault = "none"

\* ConRecord::init on the allocated record
RecInit(new_role, port, sock) ==
    /\ fault = "none"
    /\ pc = "allocated"
    /\ clock' = clock + ClockStep
    /\ rec' = init(rec, new_role, port, sock, clock')
    /\ pc' = "live"
    /\ pushed' = <<>>
    /\ call' = [name |-> "init", h |-> 0, arg |-> <<new_role, port, sock>>, ret |-> None]
    /\ cause_sets' = [slot \in DOMAIN cause_sets |-> 0]
    /\ incs' = [sent |-> 0, recv |-> 0]
    /\ UNCHANGED <<handles, ncalls, shuffled, storeVars, idxVars, fault>>

\* HasTcpState::push_state on the live record; the counter is read only
\* when the write to the state array did not panic
RecPushState(state) ==
    /\ fault = "none"
    /\ pc = "live"
    /\ LET r == push_state(rec, state, clock + ClockStep)
       IN  /\ rec' = r.rec
           /\ fault' = IF r.panic THEN PanicStateIndex ELSE "none"
           /\ clock' = IF r.panic THEN clock ELSE clock + ClockStep
           /\ pushed' = IF r.panic THEN pushed ELSE Append(pushed, state)
    /\ call' = [name |-> "push_state", h |-> 0, arg |-> state, ret |-> None]
    /\ UNCHANGED <<handles, cause_sets, ncalls, shuffled, incs, pc, storeVars, idxVars>>

NextRec ==
    \/ \E new_role \in {"Client", "Server"}, port \in 1..U16Max,
          sock \in {None, Some(<<1, 1>>)} : RecInit(new_role, port, sock)
    \/ \E state \in PushStates : RecPushState(state)

SpecRec == InitRec /\ [][NextRec]_vars

\* C12: init(role, port, sock) resets every field of the record whatever
\* it held before: afterwards states() is just the start state of the role
\* and there are no stamps, both payload counters and server_index are 0,
\* release_cause is the default of a new record, role, port and sock are
\* the arguments (sock unset for None) and server_state is the start state
\* of the role.
C12_InitResetsEveryField ==
    call.name = "init" =>
        LET new_role == call.arg[1]
            so == call.arg[3]
        IN  /\ states(rec) = <<tcp_start_state(new_role)>>
            /\ get_first_stamp(rec) = None
            /\ get_last_stamp(rec) = None
            /\ sent_payload_packets(rec) = 0
            /\ recv_payload_packets(rec) = 0
            /\ server_index(rec) = 0
            /\ release_cause(rec) = release_cause(ConRecord_new)
            /\ role(rec) = new_role
            /\ HasConData_port(rec) = call.arg[2]
            /\ HasConData_sock(rec) = (IF so = None THEN <<0, 0>> ELSE so[1])
            /\ server_state(rec) = tcp_start_state(new_role)

\* C5: after k <= 7 push_state calls on a freshly initialised record,
\* states() has k + 1 elements, the first is the TCP start state of the
\* record's role and elements 2..k+1 are the pushed states in call order.
C5_StatesInCallOrder ==
    pc = "live" =>
        /\ Len(states(rec)) = Len(pushed) + 1
        /\ states(rec)[1] = tcp_start_state(role(rec))
        /\ \A k \in 1..Len(pushed) : states(rec)[k + 1] = pushed[k]

C5_Witness ==
    /\ pc = "live"
    /\ Len(pushed) = STATE_LEN
    /\ pushed[1] # pushed[2]
    /\ role(rec) = "Server"
    /\ states(rec)[1] = "Listen"

\* C6: pushes 1 to 7 after init succeed, the push on a record that holds 7
\* transitions panics and leaves the record as it was, and the history
\* never holds more than 7 transitions.
C6_EighthPushPanics ==
    [][ /\ rec'.state_count <= STATE_LEN
        /\ (pc = "live" /\ rec.state_count < STATE_LEN) =>
              fault' = "none" /\ rec'.state_count = rec.state_count + 1
        /\ (pc = "live" /\ rec.state_count = STATE_LEN) =>
              fault' = PanicStateIndex /\ rec' = rec ]_vars

C6_Witness ==
    /\ fault = PanicStateIndex
    /\ rec.state_count = STATE_LEN
    /\ Len(pushed) = STATE_LEN

(***************************************************************************)
(* The socket index under insert, get and remove.                          *)
(***************************************************************************)
\* Sock2Index::insert
IdxInsert(ip, port, index) ==
    /\ fault = "none"
    /\ LET r == Sock2Index_insert(idx, <<ip, port>>, index)
       IN  /\ idx' = r.idx
           /\ fault' = r.panic
    /\ last' = [op |-> "insert", sock |-> <<ip, port>>, index |-> index, ret |-> None]
    /\ ips_seen' = ips_seen \cup {ip}
    /\ UNCHANGED <<hdlVars, shuffled, incs, storeVars, recVars>>

\* Sock2Index::get
IdxGet(ip, port) ==
    /\ fault = "none"
    /\ LET r == Sock2Index_get(idx, <<ip, port>>)
       IN  /\ fault' = r.panic
           /\ last' = [op |-> "get", sock |-> <<ip, port>>, index |-> 0, ret |-> r.ret]
    /\ UNCHANGED <<hdlVars, shuffled, incs, idx, ips_seen, storeVars, recVars>>

\* Sock2Index::remove
IdxRemove(ip, port) ==
    /\ fault = "none"
    /\ LET r == Sock2Index_remove(idx, <<ip, port>>)
       IN  /\ idx' = r.idx
           /\ fault' = r.panic
           /\ last' = [op |-> "remove", sock |-> <<ip, port>>, index |-> 0, ret |-> r.ret]
    /\ UNCHANGED <<hdlVars, shuffled, incs, ips_seen, storeVars, recVars>>

\* Sock2Index::values
IdxValues ==
    /\ fault = "none"
    /\ last' = [op |-> "values", sock |-> <<0, 0>>, index |-> 0,
                ret |-> Sock2Index_values(idx)]
    /\ UNCHANGED <<hdlVars, shuffled, incs, idx, ips_seen, storeVars, recVars, fault>>

InitIdx ==
    /\ StoreFresh(1)
    /\ RecFresh
    /\ IdxFresh
    /\ HandleFresh
    /\ fault = "none"

\* the local addresses of the connections (10.0.0.1, 10.0.0.2)
IdxIps == {167772161, 167772162}

\* every u16 port and the slot numbers from 0 on, on two addresses in
\* either order
NextIdx ==
    \E ip \in IdxIps, port \in 0..U16Max :
        \/ \E index \in 0..MaxSlot : IdxInsert(ip, port, index)
        \/ IdxGet(ip, port)
        \/ IdxRemove(ip, port)

SpecIdx == InitIdx /\ [][NextIdx]_vars

\* the entry of a socket is set: the model's reading of "currently mapped"
Mapped(ix, sock) ==
    /\ sock[1] \in DOMAIN ix.sock_tree
    /\ sock[2] \in 1..PortMapLen
    /\ ix.port_maps[ix.sock_tree[sock[1]]][sock[2] - 1] # 0

\* C7 as claimed: for every port in 1..65535 and every slot number from 0
\* on, get right after insert returns the inserted slot, and get right
\* after remove returns no match.
C7_GetAfterInsertAnySlot ==
    /\ (last.op = "insert" /\ last.sock[2] >= 1) =>
          /\ fault = "none"
          /\ Sock2Index_get(idx, last.sock).ret = Some(last.index)
    /\ (last.op = "remove" /\ last.sock[2] >= 1) =>
          /\ fault = "none"
          /\ Sock2Index_get(idx, last.sock).ret = None

\* C7 amended: for every port in 1..65535 and every slot number in
\* 1..65535, get right after insert returns the inserted slot; slot 0 is the
\* empty marker, get right after insert of slot 0 returns no match; get
\* right after remove returns no match.
C7_GetAfterInsertNonzeroSlot ==
    /\ (last.op = "insert" /\ last.sock[2] >= 1) =>
          /\ fault = "none"
          /\ Sock2Index_get(idx, last.sock).panic = "none"
          /\ Sock2Index_get(idx, last.sock).ret =
                IF last.index = 0 THEN None ELSE Some(last.index)
    /\ (last.op = "remove" /\ last.sock[2] >= 1) =>
          /\ fault = "none"
          /\ Sock2Index_get(idx, last.sock).panic = "none"
          /\ Sock2Index_get(idx, last.sock).ret = None

C7_Witness ==
    /\ last.op = "insert"
    /\ last.sock[2] = U16Max
    /\ last.index = MaxSlot
    /\ fault = "none"
    /\ Sock2Index_get(idx, last.sock).ret = Some(MaxSlot)

\* C9 as claimed: a get or remove of a socket that has no mapping, for any
\* address and any 16-bit port, returns None, does not fail and leaves the
\* index unchanged.
C9_MissAnyPort ==
    [][ (last'.op \in {"get", "remove"} /\ ~Mapped(idx, last'.sock)) =>
            /\ fault' = "none"
            /\ last'.ret = None
            /\ idx' = idx ]_vars

\* C9 amended: the same for every port in 1..65535; port 0 is outside the
\* contract of get and remove.
C9_MissPortFrom1 ==
    [][ ( /\ last'.op \in {"get", "remove"}
          /\ last'.sock[2] >= 1
          /\ ~Mapped(idx, last'.sock) ) =>
            /\ fault' = "none"
            /\ last'.ret = None
            /\ idx' = idx ]_vars

C9_Witness ==
    /\ last.op = "remove"
    /\ last.sock[1] \in DOMAIN idx.sock_tree
    /\ last.sock[2] >= 1
    /\ last.ret = None
    /\ fault = "none"

\* the sockets get can be asked for: the addresses in use, every port from 1
OtherSocks(sock) == {so \in IdxIps \X (1..U16Max) : so # sock}

\* C29: insert(sock, slot) and remove(sock) change the mapping of that
\* one (ip, port) pair only: for every other pair, on the same address with
\* another port or on another address with the same port, get returns
\* after the call what it returned before; and get changes nothing.
C29_OtherSocksUntouched ==
    [][ /\ last'.op \in {"insert", "remove"} =>
              \A so \in OtherSocks(last'.sock) :
                  Sock2Index_get(idx', so) = Sock2Index_get(idx, so)
        /\ last'.op = "get" => idx' = idx ]_vars

\* a socket was removed while another port of its address and its port on
\* the other address stayed mapped
C29_Witness ==
    /\ fault = "none"
    /\ last.op = "remove"
    /\ last.ret # None
    /\ Sock2Index_get(idx, last.sock).ret = None
    /\ \E so \in OtherSocks(last.sock) :
          so[1] = last.sock[1] /\ Sock2Index_get(idx, so).ret # None
    /\ \E so \in OtherSocks(last.sock) :
          so[2] = last.sock[2] /\ Sock2Index_get(idx, so).ret # None

\* values() on an index whose sockets, on the first and the last port of
\* two addresses in either order, are mapped to the slot numbers from 1 on
NextValues ==
    \/ \E ip \in IdxIps, port \in {1, U16Max} :
          \/ \E index \in 1..U16Max : IdxInsert(ip, port, index)
          \/ IdxRemove(ip, port)
    \/ IdxValues

SpecValues == InitIdx /\ [][NextValues]_vars

\* the sockets for which get returns a slot
MappedSocks(ix) ==
    {so \in (DOMAIN ix.sock_tree) \X (1..PortMapLen) : Sock2Index_get(ix, so).ret # None}

\* socket a comes before socket b: by address, then by port
SockBefore(a, b) == a[1] < b[1] \/ (a[1] = b[1] /\ a[2] < b[2])

\* C15: values() returns exactly the slot numbers of the sockets that are
\* currently mapped (those for which get returns a slot), one entry per
\* mapped socket, ordered by ascending IP address and within one IP by
\* ascending port.
C15_ValuesInIpPortOrder ==
    last.op = "values" =>
        LET socks == MappedSocks(idx)
            nth(i) == CHOOSE so \in socks :
                          Cardinality({t \in socks : SockBefore(t, so)}) = i - 1
        IN  /\ Len(last.ret) = Cardinality(socks)
            /\ \A i \in 1..Len(last.ret) :
                  Some(last.ret[i]) = Sock2Index_get(idx, nth(i)).ret

\* values() was called with sockets mapped to different slots on two
\* addresses, two of them on one address, the greater address having the
\* bank with the smaller id
C15_Witness ==
    /\ last.op = "values"
    /\ Len(last.ret) >= 3
    /\ last.ret[1] # last.ret[Len(last.ret)]
    /\ \E a, b \in DOMAIN idx.sock_tree :
          a < b /\ idx.sock_tree[a] > idx.sock_tree[b]

(***************************************************************************)
(* The socket index with more addresses than banks.  insert, get and       *)
(* remove look at an address only through the map lookup, so the           *)
(* addresses are taken in ascending order of first use.                    *)
(***************************************************************************)
BankIps == 1..(NumBanks + ExtraIps)

\* ip was used before, or is the next unused address (any unused one once
\* the banks are spent)
InOrder(ip) ==
    \/ ip \in ips_seen
    \/ \A j \in 1..(ip - 1) : j \in ips_seen
    \/ Cardinality(ips_seen) >= NumBanks

NextBanks ==
    \E ip \in BankIps :
        \/ InOrder(ip) /\ IdxInsert(ip, 1, 1)
        \/ IdxGet(ip, 1)
        \/ IdxRemove(ip, 1)

SpecBanks == InitIdx /\ [][NextBanks]_vars

\* C8: on a fresh index the inserts for 8 distinct addresses succeed and
\* the insert for a 9th distinct address panics with the bank-exhaustion
\* error.
C8_NinthIpFails ==
    /\ Cardinality(ips_seen) <= NumBanks => fault = "none"
    /\ Cardinality(ips_seen) > NumBanks =>
          /\ fault = PanicBanks
          /\ last.op = "insert"
          /\ Cardinality(DOMAIN idx.sock_tree) = NumBanks
    /\ \A ip \in ips_seen :
          (fault = "none" \/ ip # last.sock[1]) => ip \in DOMAIN idx.sock_tree

C8_Witness ==
    /\ fault = PanicBanks
    /\ Cardinality(ips_seen) = NumBanks + 1
    /\ Cardinality(DOMAIN idx.sock_tree) = NumBanks

\* every entry of every bank is empty
AllEntriesEmpty ==
    \A b \in DOMAIN idx.port_maps :
        \A i \in DOMAIN idx.port_maps[b] : idx.port_maps[b][i] = 0

\* C10: no operation raises the number of free bank ids, an address keeps
\* its bank whatever is removed, and once 8 distinct addresses have been
\* inserted the insert for a further address panics, whatever was removed
\* before.
C10_BanksNeverReleased ==
    [][ /\ Len(idx'.free_maps) <= Len(idx.free_maps)
        /\ \A ip \in DOMAIN idx.sock_tree :
              /\ ip \in DOMAIN idx'.sock_tree
              /\ idx'.sock_tree[ip] = idx.sock_tree[ip]
        /\ ( /\ Cardinality(ips_seen) >= NumBanks
             /\ last'.op = "insert"
             /\ last'.sock[1] \notin ips_seen ) => fault' = PanicBanks ]_vars

C10_Witness ==
    /\ fault = PanicBanks
    /\ Cardinality(ips_seen) = NumBanks + 1
    /\ AllEntriesEmpty
    /\ idx.free_maps = <<>>

\* the bank ids assigned to addresses, and those on the free list
AssignedBanks(ix) == {ix.sock_tree[ip] : ip \in DOMAIN ix.sock_tree}
FreeBanks(ix) == {ix.free_maps[i] : i \in 1..Len(ix.free_maps)}

\* the addresses for which an insert found or took a bank: all addresses
\* passed to insert but the one of the insert that failed for want of a bank
InsertedIps ==
    IF fault = PanicBanks THEN ips_seen \ {last.sock[1]} ELSE ips_seen

\* C28: in every state of a Sock2Index the bank ids assigned to addresses
\* are pairwise distinct, none of them is on the free list, assigned and
\* free ids together are exactly 0..7, and the number of assigned banks is
\* the number of distinct addresses inserted, an insert for an address
\* that has a bank taking none from the free list.
C28_BanksPartitioned ==
    /\ \A a, b \in DOMAIN idx.sock_tree :
          a # b => idx.sock_tree[a] # idx.sock_tree[b]
    /\ AssignedBanks(idx) \cap FreeBanks(idx) = {}
    /\ AssignedBanks(idx) \cup FreeBanks(idx) = 0..(NumBanks - 1)
    /\ Cardinality(FreeBanks(idx)) = Len(idx.free_maps)
    /\ DOMAIN idx.sock_tree = InsertedIps
    /\ Cardinality(AssignedBanks(idx)) = Cardinality(InsertedIps)
    /\ Len(idx.free_maps) = NumBanks - Cardinality(InsertedIps)

\* an address that has a bank was inserted again while banks were free
\* and others assigned
C28_Witness ==
    /\ fault = "none"
    /\ last.op = "insert"
    /\ Cardinality(ips_seen) = 3
    /\ last.sock[1] = 1
    /\ Len(idx.free_maps) = NumBanks - 3

(***************************************************************************)
(* Connection handles on one shared RecordStore.  A connection is opened   *)
(* by taking a slot from the store and initialising its record; handle 1   *)
(* is the client side, handle 2 the server side.  A handle can take over   *)
(* the slot of the other one, so that both refer to the same record.       *)
(***************************************************************************)
\* the causes passed to set_release_cause
SetCauses == {"Timeout", "ActiveClose"}

\* the methods of a handle that write, with the arguments tried;
\* con_established and server_syn_sent take none
HandleWrites ==
    [ con_established |-> {None},
      server_syn_sent |-> {None},
      push_state |-> {"SynSent", "Established"},
      set_sock |-> {<<0, 1>>, <<167772161, 1>>},
      set_port |-> {U16Max},
      set_uid |-> {7},
      set_server_index |-> {1, U8Mod + 1},
      set_release_cause |-> SetCauses ]

\* the methods of a handle that append to the state history, reading the
\* cycle counter
HandlePushes == {"con_established", "server_syn_sent", "push_state"}

\* the methods of a handle that read
HandleReads == {"port", "server_index", "last_state", "states", "sock", "get_uid"}

\* the role of the connection side a handle stands for
HandleRole(h) == IF h = 1 THEN "Client" ELSE "Server"

\* dispatch of a writing handle method
HandleWriteCall(s, slot, name, arg, now) ==
    CASE name = "con_established" -> ConRecordOperations_con_established(s, slot, now)
      [] name = "server_syn_sent" -> ConRecordOperations_server_syn_sent(s, slot, now)
      [] name = "push_state" -> ConRecordOperations_push_state(s, slot, arg, now)
      [] name = "set_sock" -> ConRecordOperations_set_sock(s, slot, arg)
      [] name = "set_port" -> ConRecordOperations_set_port(s, slot, arg)
      [] name = "set_uid" -> ConRecordOperations_set_uid(s, slot, arg)
      [] name = "set_server_index" -> ConRecordOperations_set_server_index(s, slot, arg)
      [] name = "set_release_cause" -> ConRecordOperations_set_release_cause(s, slot, arg)

\* dispatch of a reading handle method
HandleReadCall(s, slot, name) ==
    CASE name = "port" -> ConRecordOperations_port(s, slot)
      [] name = "server_index" -> ConRecordOperations_server_index(s, slot)
      [] name = "last_state" -> ConRecordOperations_last_state(s, slot)
      [] name = "states" -> ConRecordOperations_states(s, slot)
      [] name = "sock" -> ConRecordOperations_sock(s, slot)
      [] name = "get_uid" -> ConRecordOperations_get_uid(s, slot)

InitHandle ==
    /\ \E capacity \in 1..MaxHandleCap : StoreFresh(capacity)
    /\ RecFresh
    /\ IdxFresh
    /\ HandleFresh
    /\ fault = "none"

\* a connection is opened on handle h: get_unused_slot, then init of the
\* record of the slot; connections are opened until the store has wrapped
HOpen(h) ==
    /\ fault = "none"
    /\ Len(rs_slots) <= cap
    /\ LET r == RecordStore_get_unused_slot(rs)
           now == clock + ClockStep
           new_rec == init(r.store.store[r.slot], HandleRole(h), 1, None, now)
       IN  /\ rs' = WithRecord(r.store, r.slot, new_rec)
           /\ rs_slots' = Append(rs_slots, r.slot)
           /\ rs_warns' = rs_warns + (IF r.warned THEN 1 ELSE 0)
           /\ clock' = now
           /\ handles' = [handles EXCEPT ![h] = Some(r.slot)]
           /\ cause_sets' = [cause_sets EXCEPT ![r.slot] = 0]
           /\ call' = [name |-> "init", h |-> h,
                       arg |-> <<HandleRole(h), 1, None>>, ret |-> Some(r.slot)]
    /\ UNCHANGED <<cap, s64, s64_slots, s64_warns, rec, pc, pushed, idxVars,
                   ncalls, shuffled, incs, fault>>

\* handle h takes over the slot of handle g
HShare(h, g) ==
    /\ fault = "none"
    /\ handles[g] # None
    /\ handles[h] # handles[g]
    /\ handles' = [handles EXCEPT ![h] = handles[g]]
    /\ call' = [name |-> "share", h |-> h, arg |-> g, ret |-> handles[g]]
    /\ UNCHANGED <<storeVars, recVars, idxVars, cause_sets, ncalls, shuffled, incs, fault>>

\* a writing method of handle h
HWrite(h, name, arg) ==
    /\ fault = "none"
    /\ ncalls < MaxHandleCalls
    /\ handles[h] # None
    /\ LET slot == handles[h][1]
           now == clock + ClockStep
           r == HandleWriteCall(rs, slot, name, arg, now)
       IN  /\ rs' = r.store
           /\ fault' = r.panic
           /\ clock' = IF name \in HandlePushes /\ r.panic = "none" THEN now ELSE clock
           /\ cause_sets' = IF name = "set_release_cause" /\ r.panic = "none"
                            THEN [cause_sets EXCEPT ![slot] = @ + 1]
                            ELSE cause_sets
    /\ call' = [name |-> name, h |-> h, arg |-> arg, ret |-> None]
    /\ ncalls' = ncalls + 1
    /\ UNCHANGED <<cap, rs_slots, rs_warns, s64, s64_slots, s64_warns,
                   rec, pc, pushed, idxVars, handles, shuffled, incs>>

\* a reading method of handle h: it changes nothing unless it panics
HRead(h, name) ==
    /\ fault = "none"
    /\ handles[h] # None
    /\ LET r == HandleReadCall(rs, handles[h][1], name)
       IN  /\ fault' = r.panic
           /\ call' = IF r.panic = "none" THEN call
                      ELSE [name |-> name, h |-> h, arg |-> None, ret |-> r.ret]
    /\ UNCHANGED <<storeVars, recVars, idxVars, handles, cause_sets, ncalls, shuffled, incs>>

\* a method of the record that the handle trait does not offer, called by
\* the owner of handle h on the reference RecordStore::get_mut returns for
\* the handle's slot; nothing is called when get_mut returns None
HRecord(h, name, build) ==
    /\ fault = "none"
    /\ ncalls < MaxHandleCalls
    /\ handles[h] # None
    /\ LET slot == handles[h][1]
           got == RecordStore_get_mut(rs, slot)
           old == got[1]
           r == CASE name = "inc_sent_payload_pkts" -> inc_sent_payload_pkts(old, build)
                  [] name = "inc_recv_payload_pkts" -> inc_recv_payload_pkts(old, build)
                  [] name = "set_server_state" ->
                        [rec |-> set_server_state(old, "Established"),
                         ret |-> None, panic |-> FALSE]
       IN  IF got = None
           THEN /\ call' = [name |-> "get_mut", h |-> 0, arg |-> slot, ret |-> None]
                /\ UNCHANGED <<rs, fault>>
           ELSE /\ rs' = IF r.panic THEN rs ELSE WithRecord(rs, slot, r.rec)
                /\ fault' = IF r.panic THEN PanicAddOverflow ELSE "none"
                /\ call' = [name |-> name, h |-> 0, arg |-> slot, ret |-> r.ret]
    /\ ncalls' = ncalls + 1
    /\ UNCHANGED <<cap, rs_slots, rs_warns, s64, s64_slots, s64_warns,
                   recVars, idxVars, handles, cause_sets, shuffled, incs>>

\* RecordStore::get called with the slot of handle h by its owner: reading
\* the record changes nothing, None is kept as the result of the call
HGet(h) ==
    /\ fault = "none"
    /\ handles[h] # None
    /\ LET slot == handles[h][1]
           got == RecordStore_get(rs, slot)
       IN  call' = IF got # None THEN call
                   ELSE [name |-> "get", h |-> 0, arg |-> slot, ret |-> got]
    /\ UNCHANGED <<storeVars, recVars, idxVars, handles, cause_sets, ncalls,
                   shuffled, incs, fault>>

RecordCalls == {"inc_sent_payload_pkts", "inc_recv_payload_pkts", "set_server_state"}

\* the handles are alike but for the role of the connection they open, and
\* either can take over the slot of the other: the writing calls are made
\* through one of them and read through both
Writer == 1

NextHandle ==
    \/ \E h \in Handles : HOpen(h)
    \/ \E h \in Handles, g \in Handles : HShare(h, g)
    \/ \E name \in DOMAIN HandleWrites :
          \E arg \in HandleWrites[name] : HWrite(Writer, name, arg)
    \/ \E h \in Handles, name \in HandleReads : HRead(h, name)
    \/ \E h \in Handles : HGet(h)
    \/ \E name \in RecordCalls, build \in Builds :
          HRecord(Writer, name, build)

SpecHandle == InitHandle /\ [][NextHandle]_vars

\* handle g refers to the record the last writing call went to: another
\* handle with the slot of the handle that wrote, the write not having
\* panicked
ReadsWrittenRecord(g) ==
    /\ fault = "none"
    /\ call.name \in DOMAIN HandleWrites
    /\ call.h \in Handles
    /\ g # call.h
    /\ handles[g] = handles[call.h]

\* the state that the last call, one of HandlePushes, appended
StatePushed ==
    CASE call.name = "con_established" -> "Established"
      [] call.name = "server_syn_sent" -> "SynSent"
      [] call.name = "push_state" -> call.arg

\* what the reads through a handle return for the fields that a write of
\* the push_state, set_port, set_uid or set_release_cause kind went to;
\* con_established and server_syn_sent are a push_state of their state
ReadsValueWritten(slot) ==
    /\ call.name \in HandlePushes =>
          /\ ConRecordOperations_last_state(rs, slot).ret = Some(StatePushed)
          /\ LET st == ConRecordOperations_states(rs, slot).ret[1]
             IN  st[Len(st)] = StatePushed
    /\ call.name = "set_port" =>
          ConRecordOperations_port(rs, slot).ret = Some(call.arg)
    /\ call.name = "set_uid" =>
          ConRecordOperations_get_uid(rs, slot).ret = Some(call.arg)
    /\ call.name = "set_release_cause" =>
          release_cause(RecordStore_get(rs, slot)[1]) = call.arg

\* C11 as claimed: after a writing call through one handle, the
\* corresponding read through another handle of the same store and slot
\* returns the value just written, for each of push_state, set_sock,
\* set_port, set_uid, set_server_index and set_release_cause.
C11_ReadsWhatWasWritten ==
    \A g \in Handles :
        ReadsWrittenRecord(g) =>
            LET slot == handles[g][1]
            IN  /\ ReadsValueWritten(slot)
                /\ call.name = "set_sock" =>
                      ConRecordOperations_sock(rs, slot).ret = Some(Some(call.arg))
                /\ call.name = "set_server_index" =>
                      ConRecordOperations_server_index(rs, slot).ret = Some(call.arg)

\* C11, amended: after a writing call through one handle, the read
\* through another handle of the same store and slot returns what the
\* record keeps of the value written: the value itself for push_state,
\* set_port, set_uid and set_release_cause, the index modulo 256 for
\* set_server_index, and for set_sock the socket if its address is not 0
\* and None if it is.
C11_ReadsWhatRecordKeeps ==
    \A g \in Handles :
        ReadsWrittenRecord(g) =>
            LET slot == handles[g][1]
            IN  /\ ReadsValueWritten(slot)
                /\ call.name = "set_sock" =>
                      ConRecordOperations_sock(rs, slot).ret =
                          Some(IF call.arg[1] # 0 THEN Some(call.arg) ELSE None)
                /\ call.name = "set_server_index" =>
                      ConRecordOperations_server_index(rs, slot).ret =
                          Some(call.arg % U8Mod)

\* a set_server_index went through handle 1 to the record at slot 1 that
\* handle 2 shares, another record being at slot 0
C11_Witness ==
    /\ ReadsWrittenRecord(2)
    /\ call.name = "set_server_index"
    /\ call.arg = 1
    /\ handles[2] = Some(1)
    /\ RecordStore_len(rs) = 2

\* C30: through a connection handle, set_server_index(i) followed by
\* server_index() returns i, for every index i of the usize parameter of
\* set_server_index.
C30_ServerIndexRoundTrip ==
    (call.name = "set_server_index" /\ call.h \in Handles /\ fault = "none") =>
        ConRecordOperations_server_index(rs, handles[call.h][1]).ret = Some(call.arg)

\* the last call was a method of a handle
HandleMethodCalled ==
    /\ call.h \in Handles
    /\ call.name \in (DOMAIN HandleWrites) \cup HandleReads

\* C16 as claimed: an access with a slot that is not valid in the store
\* terminates the caller, for get and get_mut called directly and for the
\* methods of a handle holding the slot; it yields neither a record nor an
\* absent result.
C16_OutOfRangeIsFatal ==
    /\ (call.name \in {"get", "get_mut"} /\ call.arg >= RecordStore_len(rs)) =>
          fault # "none"
    /\ (HandleMethodCalled /\ handles[call.h][1] >= RecordStore_len(rs)) =>
          fault = PanicUnwrap

\* C16, amended: get and get_mut called directly with a slot >= len()
\* return None and nothing stops; every method of a handle holding such a
\* slot panics on the unwrap of that None, and nothing else panics on
\* unwrap.
C16_OnlyHandlesPanic ==
    /\ \A slot \in RecordStore_len(rs)..cap :
          RecordStore_get(rs, slot) = None /\ RecordStore_get_mut(rs, slot) = None
    /\ (call.name \in {"get", "get_mut"} /\ call.arg >= RecordStore_len(rs)) =>
          fault = "none" /\ call.ret = None
    /\ (HandleMethodCalled /\ handles[call.h][1] >= RecordStore_len(rs)) =>
          fault = PanicUnwrap
    /\ fault = PanicUnwrap =>
          HandleMethodCalled /\ handles[call.h][1] >= RecordStore_len(rs)

\* a handle kept slot 1 over the wrap of the store; its set_port panicked
C16_Witness ==
    /\ fault = PanicUnwrap
    /\ call.name = "set_port"
    /\ handles[call.h] = Some(1)
    /\ RecordStore_len(rs) = 1
    /\ rs_warns = 1

\* the step is the init of the record at slot
InitOf(slot) == call'.name = "init" /\ call'.ret = Some(slot)

\* C17 as claimed: no operation after init and before the next init,
\* through the record or through a handle, changes the uid of a record.
C17_UidStable ==
    [][ \A slot \in DOMAIN rs.store :
           ~InitOf(slot) => uid(rs'.store[slot]) = uid(rs.store[slot]) ]_vars

\* C17, amended: the uid of a record is changed by init and by set_uid
\* on that record only; set_uid(u) through a handle makes get_uid() of
\* the handle return u.
C17_UidChangedBySetUid ==
    [][ /\ \A slot \in DOMAIN rs.store :
              uid(rs'.store[slot]) # uid(rs.store[slot]) =>
                  \/ InitOf(slot)
                  \/ call'.name = "set_uid" /\ handles[call'.h] = Some(slot)
        /\ (call'.name = "set_uid" /\ ncalls' # ncalls /\ fault' = "none") =>
              ConRecordOperations_get_uid(rs', handles[call'.h][1]).ret
                  = Some(call'.arg) ]_vars

\* set_uid replaced the uid init gave the record behind a handle
C17_Witness ==
    /\ call.name = "set_uid"
    /\ fault = "none"
    /\ ConRecordOperations_get_uid(rs, handles[call.h][1]).ret = Some(call.arg)
    /\ call.arg \notin {0, clock}

\* C18: no operation other than init (push_state, the setters, the
\* counter increments, set_release_cause, slot allocation in the store)
\* changes the role of a record.
C18_RoleChangedByInitOnly ==
    [][ \A slot \in DOMAIN rs.store :
           role(rs'.store[slot]) # role(rs.store[slot]) => InitOf(slot) ]_vars

\* a record opened as server side kept its role under set_server_state
C18_Witness ==
    /\ call.name = "set_server_state"
    /\ fault = "none"
    /\ role(rs.store[call.arg]) = "Server"
    /\ server_state(rs.store[call.arg]) = "Established"

(***************************************************************************)
(* The release cause over the lives of one record: the record is           *)
(* initialised, its connection runs and is released, and the slot is       *)
(* handed out again.                                                       *)
(***************************************************************************)
\* HasTcpState::set_release_cause on the live record
RecSetReleaseCause(cause) ==
    /\ fault = "none"
    /\ pc = "live"
    /\ cause_sets[0] < MaxCauseSets
    /\ rec' = set_release_cause(rec, cause)
    /\ cause_sets' = [cause_sets EXCEPT ![0] = @ + 1]
    /\ call' = [name |-> "set_release_cause", h |-> 0, arg |-> cause, ret |-> None]
    /\ UNCHANGED <<pc, pushed, clock, handles, ncalls, shuffled, incs, storeVars, idxVars, fault>>

\* the store has wrapped and hands the slot of the record out again
RecReuse ==
    /\ fault = "none"
    /\ pc = "live"
    /\ Len(rs_slots) < MaxReuses
    /\ LET r == RecordStore_get_unused_slot(rs)
       IN  /\ rs' = r.store
           /\ rs_slots' = Append(rs_slots, r.slot)
           /\ rs_warns' = rs_warns + (IF r.warned THEN 1 ELSE 0)
    /\ pc' = "allocated"
    /\ call' = [name |-> "get_unused_slot", h |-> 0, arg |-> None, ret |-> None]
    /\ UNCHANGED <<cap, s64, s64_slots, s64_warns, rec, pushed, clock, idxVars,
                   handles, cause_sets, ncalls, shuffled, incs, fault>>

NextCause ==
    \/ \E new_role \in {"Client", "Server"} : RecInit(new_role, 1, None)
    \/ \E cause \in SetCauses : RecSetReleaseCause(cause)
    \/ RecPushState("Established")
    \/ RecReuse

SpecCause == InitRec /\ [][NextCause]_vars

\* C19 as claimed: between two init calls on a record the release cause
\* changes at most once: once set_release_cause was called, no later call
\* replaces the cause.
C19_CauseSetOnce ==
    [][ (pc = "live" /\ pc' = "live" /\ cause_sets[0] >= 1) =>
           release_cause(rec') = release_cause(rec) ]_vars

\* C19, amended: every set_release_cause call stores its cause, replacing
\* the one an earlier call recorded; no other operation changes the
\* release cause.
C19_LastCauseWins ==
    [][ /\ cause_sets'[0] = cause_sets[0] + 1 => release_cause(rec') = call'.arg
        /\ release_cause(rec') # release_cause(rec) =>
              cause_sets'[0] = cause_sets[0] + 1 ]_vars

\* the second set_release_cause since init replaced the cause of the first
C19_Witness ==
    /\ pc = "live"
    /\ call.name = "set_release_cause"
    /\ cause_sets[0] = 2
    /\ release_cause(rec) = "ActiveClose"
    /\ rs_slots = <<>>

(***************************************************************************)
(* Sorting a store.  Connections are opened on one of the two stores, each *)
(* with a port of its own choice and the counter reading as uid, and the   *)
(* store is sorted in between.                                             *)
(***************************************************************************)
InitSort ==
    /\ \E capacity \in 1..MaxSortCap : StoreFresh(capacity)
    /\ RecFresh
    /\ IdxFresh
    /\ HandleFresh
    /\ fault = "none"

\* a connection is opened on the RecordStore: get_unused_slot, then init
\* of the record of the slot
SortOpen(port) ==
    /\ Store64_len(s64) = 0
    /\ Len(rs_slots) <= cap
    /\ LET r == RecordStore_get_unused_slot(rs)
           now == clock + ClockStep
       IN  /\ rs' = WithRecord(r.store, r.slot,
                               init(r.store.store[r.slot], "Client", port, None, now))
           /\ rs_slots' = Append(rs_slots, r.slot)
           /\ rs_warns' = rs_warns + (IF r.warned THEN 1 ELSE 0)
           /\ clock' = now
           /\ call' = [name |-> "init", h |-> 0,
                       arg |-> <<"Client", port, None>>, ret |-> Some(r.slot)]
    /\ UNCHANGED <<cap, s64, s64_slots, s64_warns, rec, pc, pushed, idxVars,
                   handles, cause_sets, ncalls, shuffled, incs, fault>>

\* RecordStore::sort_by; the call keeps the store as it was before
SortBy(cmp) ==
    /\ Store64_len(s64) = 0
    /\ rs' = RecordStore_sort_by(rs, cmp)
    /\ call' = [name |-> "sort_by", h |-> 0, arg |-> cmp, ret |-> Some(rs)]
    /\ UNCHANGED <<cap, rs_slots, rs_warns, s64, s64_slots, s64_warns, recVars,
                   idxVars, handles, cause_sets, ncalls, shuffled, incs, fault>>

\* a connection is opened on the Store64
Sort64Open(port) ==
    /\ RecordStore_len(rs) = 0
    /\ Len(s64_slots) <= cap
    /\ LET r == Store64_get_unused_slot(s64)
           now == clock + ClockStep
       IN  /\ s64' = [r.store EXCEPT !.store_0[r.slot] =
                          init(@, "Client", port, None, now)]
           /\ s64_slots' = Append(s64_slots, r.slot)
           /\ s64_warns' = s64_warns + (IF r.warned THEN 1 ELSE 0)
           /\ clock' = now
           /\ call' = [name |-> "init", h |-> 0,
                       arg |-> <<"Client", port, None>>, ret |-> Some(r.slot)]
    /\ UNCHANGED <<cap, rs, rs_slots, rs_warns, rec, pc, pushed, idxVars,
                   handles, cause_sets, ncalls, shuffled, incs, fault>>

\* Store64::sort_0_by; the call keeps the store as it was before
Sort0By(cmp) ==
    /\ RecordStore_len(rs) = 0
    /\ s64' = Store64_sort_0_by(s64, cmp)
    /\ call' = [name |-> "sort_0_by", h |-> 0, arg |-> cmp, ret |-> Some(s64)]
    /\ UNCHANGED <<cap, rs, rs_slots, rs_warns, s64_slots, s64_warns, recVars,
                   idxVars, handles, cause_sets, ncalls, shuffled, incs, fault>>

NextSort ==
    \/ \E port \in 1..U16Max : SortOpen(port)
    \/ \E cmp \in Comparators : SortBy(cmp)
    \/ \E port \in 1..U16Max : Sort64Open(port)
    \/ \E cmp \in Comparators : Sort0By(cmp)

SpecSort == InitSort /\ [][NextSort]_vars

\* new is old with its first k records in the order of cmp: the same
\* records, each once, none before one it compares greater than, records
\* that compare equal in their old order, and every record from position
\* k on where it was
SortedPrefix(old, new, k, cmp) ==
    /\ DOMAIN new = DOMAIN old
    /\ \A i \in DOMAIN old : i >= k => new[i] = old[i]
    /\ \E f \in [0..(k - 1) -> 0..(k - 1)] :
          /\ \A i, j \in 0..(k - 1) : i # j => f[i] # f[j]
          /\ \A i \in 0..(k - 1) : new[i] = old[f[i]]
          /\ \A i, j \in 0..(k - 1) :
                i < j => /\ compare(cmp, new[i], new[j]) # "Greater"
                         /\ compare(cmp, new[i], new[j]) = "Equal" => f[i] < f[j]

\* C13: sort_by(compare) on a store with k = len() valid records permutes
\* exactly the positions 0..k-1 into comparator order, keeps the relative
\* order of records that compare equal, leaves the records at positions
\* >= k untouched and leaves len() unchanged; sort_0_by does the same to
\* the records of a Store64.
C13_SortsValidPrefix ==
    /\ call.name = "sort_by" =>
          LET before == call.ret[1]
          IN  /\ SortedPrefix(before.store, rs.store, RecordStore_len(before), call.arg)
              /\ RecordStore_len(rs) = RecordStore_len(before)
    /\ call.name = "sort_0_by" =>
          LET before == call.ret[1]
          IN  /\ SortedPrefix(before.store_0, s64.store_0, Store64_len(before), call.arg)
              /\ Store64_len(s64) = Store64_len(before)

\* a sort by port moved records of a store that is not full, two of the
\* valid records having the same port
C13_Witness ==
    /\ call.name = "sort_by"
    /\ call.arg = "by_port"
    /\ call.ret[1] # rs
    /\ RecordStore_len(rs) < VecLen(rs.store)
    /\ \E i, j \in 0..(RecordStore_len(rs) - 1) :
          i # j /\ compare("by_port", rs.store[i], rs.store[j]) = "Equal"

\* C26: in every state of a RecordStore or Store64 of capacity N >= 1,
\* 0 <= len() <= N, a fresh store having len() = 0; get(slot) and
\* get_mut(slot) return a record exactly when slot < len(); and the slices
\* get, get_mut, iter and sort_by index lie within the backing vectors.
C26_LenWithinCapacity ==
    /\ 0 <= RecordStore_len(rs) /\ RecordStore_len(rs) <= cap
    /\ 0 <= Store64_len(s64) /\ Store64_len(s64) <= cap
    /\ VecLen(rs.store) = cap /\ VecLen(s64.store_0) = cap /\ VecLen(s64.store_1) = cap
    /\ rs_slots = <<>> => RecordStore_len(rs) = 0
    /\ s64_slots = <<>> => Store64_len(s64) = 0
    /\ \A slot \in 0..(cap + 1) :
          /\ RecordStore_get(rs, slot) # None <=> slot < RecordStore_len(rs)
          /\ RecordStore_get_mut(rs, slot) # None <=> slot < RecordStore_len(rs)
          /\ Store64_get(s64, slot) # None <=> slot < Store64_len(s64)
          /\ Store64_get_mut(s64, slot) # None <=> slot < Store64_len(s64)
          /\ Store64_get_1(s64, slot) # None <=> slot < Store64_len(s64)
          /\ RecordStore_get(rs, slot) # None => slot \in DOMAIN rs.store
          /\ Store64_get(s64, slot) # None => slot \in DOMAIN s64.store_0
          /\ Store64_get_1(s64, slot) # None => slot \in DOMAIN s64.store_1
    /\ SliceInBounds(rs.store, rs.used_slots)
    /\ SliceInBounds(s64.store_0, s64.used_slots)
    /\ SliceInBounds(s64.store_1, s64.used_slots)
    /\ Len(RecordStore_iter(rs)) = RecordStore_len(rs)
    /\ Len(Store64_iter_0(s64)) = Store64_len(s64)
    /\ Len(Store64_iter_1(s64)) = Store64_len(s64)

\* a full RecordStore of capacity 3 was sorted
C26_Witness ==
    /\ cap = 3
    /\ call.name = "sort_by"
    /\ RecordStore_len(rs) = cap
    /\ RecordStore_get(rs, cap - 1) # None
    /\ RecordStore_get(rs, cap) = None

(***************************************************************************)
(* The stamps of one record under counter readings that advance by         *)
(* nothing, by a step that stays under the factor's granularity times two, *)
(* or by almost the whole range the 32-bit delta covers.                   *)
(***************************************************************************)
\* cycles between two reads of the counter
StampSteps == {0, ClockStep, U32Mod * TIME_STAMP_REDUCTION_FACTOR - ClockStep}

InitStamp ==
    /\ StoreFresh(1)
    /\ RecFresh
    /\ IdxFresh
    /\ HandleFresh
    /\ fault = "none"

\* HasTcpState::push_state on the live record, the counter having advanced
\* by step since it was read last
StampPush(state, step) ==
    /\ fault = "none"
    /\ pc = "live"
    /\ LET r == push_state(rec, state, clock + step)
       IN  /\ rec' = r.rec
           /\ fault' = IF r.panic THEN PanicStateIndex ELSE "none"
           /\ clock' = IF r.panic THEN clock ELSE clock + step
           /\ pushed' = IF r.panic THEN pushed ELSE Append(pushed, state)
    /\ call' = [name |-> "push_state", h |-> 0, arg |-> state, ret |-> None]
    /\ UNCHANGED <<handles, cause_sets, ncalls, shuffled, incs, pc, storeVars, idxVars>>

NextStamp ==
    \/ RecInit("Client", 1, None)
    \/ \E step \in StampSteps : StampPush("Established", step)

SpecStamp == InitStamp /\ [][NextStamp]_vars

\* C14: over at most 7 push_state calls on a freshly initialised record
\* with non-decreasing counter readings, get_first_stamp() and
\* get_last_stamp() never decrease from one push to the next and
\* get_last_stamp() >= get_first_stamp().
C14_StampsNeverDecrease ==
    [][ (pc = "live" /\ call'.name = "push_state" /\ fault' = "none") =>
           /\ get_last_stamp(rec')[1] >= get_first_stamp(rec')[1]
           /\ get_first_stamp(rec) # None =>
                 get_first_stamp(rec')[1] >= get_first_stamp(rec)[1]
           /\ get_last_stamp(rec) # None =>
                 get_last_stamp(rec')[1] >= get_last_stamp(rec)[1] ]_vars

(***************************************************************************)
(* shuffle_ports (utils.rs).                                               *)
(***************************************************************************)
\* `first_port..bound` collected into a vector
PortRange(first_port, bound) ==
    IF first_port >= bound THEN <<>>
    ELSE [k \in 1..(bound - first_port) |-> first_port + k - 1]

\* v with the elements at positions i and j exchanged
Swap(v, i, j) == [v EXCEPT ![i] = v[j], ![j] = v[i]]

\* SliceRandom::shuffle, Fisher-Yates: the element for position i, from the
\* last down, is drawn from the positions 1..i; every draw of the random
\* number generator is possible
RECURSIVE Shuffles(_, _)
Shuffles(v, i) ==
    IF i <= 1 THEN {v}
    ELSE UNION {Shuffles(Swap(v, i, j), i - 1) : j \in 1..i}

\* shuffle_ports: the vectors a call can return.  `last_port + 1` on
\* u16::MAX panics in a debug build and wraps to 0 in a release build,
\* which leaves the range empty
shuffle_ports(first_port, last_port, build) ==
    IF last_port = U16Max /\ build = "debug"
    THEN {[vec |-> <<>>, panic |-> TRUE]}
    ELSE LET bound == (last_port + 1) % (U16Max + 1)
             vec == PortRange(first_port, bound)
         IN  {[vec |-> v, panic |-> FALSE] : v \in Shuffles(vec, Len(vec))}

InitShuffle ==
    /\ StoreFresh(1)
    /\ RecFresh
    /\ IdxFresh
    /\ HandleFresh
    /\ fault = "none"

\* one call of shuffle_ports
ShufflePorts(first_port, last_port, build) ==
    /\ fault = "none"
    /\ Len(shuffled) < MaxShuffles
    /\ \E r \in shuffle_ports(first_port, last_port, build) :
          /\ fault' = IF r.panic THEN PanicAddOverflow ELSE "none"
          /\ shuffled' = IF r.panic THEN shuffled
                         ELSE Append(shuffled, [first |-> first_port,
                                                last |-> last_port,
                                                vec |-> r.vec])
    /\ UNCHANGED <<storeVars, recVars, idxVars, hdlVars, incs>>

\* every first_port <= last_port of the u16 range, in either build
NextShuffle ==
    \E first_port \in 0..U16Max, build \in Builds :
        \E last_port \in first_port..U16Max : ShufflePorts(first_port, last_port, build)

SpecShuffle == InitShuffle /\ [][NextShuffle]_vars

\* vec holds every port of first..last exactly once and nothing else
IsPermutationOfRange(vec, first_port, last_port) ==
    /\ Len(vec) = last_port - first_port + 1
    /\ \A p \in first_port..last_port :
          Cardinality({k \in 1..Len(vec) : vec[k] = p}) = 1

\* C20: shuffle_ports(first, last) returns a permutation of the inclusive
\* port range first..=last for every first <= last in the 16-bit port
\* range: the call returns, each port of the range occurs exactly once and
\* nothing else occurs.
C20_ShuffleIsPermutation ==
    /\ fault = "none"
    /\ \A i \in 1..Len(shuffled) :
          IsPermutationOfRange(shuffled[i].vec, shuffled[i].first, shuffled[i].last)

(***************************************************************************)
(* One live record under every field operation: the setters, the counter   *)
(* increments and the read accessors, between the pushes of its history.   *)
(***************************************************************************)
\* the setters of a record, with the arguments tried
FieldSets ==
    [ set_sock |-> {<<167772161, U16Max>>},
      set_port |-> {U16Max},
      set_uid |-> {7},
      set_server_index |-> {1},
      set_server_state |-> {"Established"},
      set_release_cause |-> {"Timeout"} ]

\* the counter increments of a record
FieldIncs == {"inc_sent_payload_pkts", "inc_recv_payload_pkts"}

\* the read accessors of a record
FieldReads ==
    {"role", "sock", "port", "uid", "server_index", "sent_payload_packets",
     "recv_payload_packets", "server_state", "release_cause", "last_state",
     "states", "get_first_stamp", "get_last_stamp", "deltas_to_base_stamp"}

\* the fields of ConRecord a setter or an increment is meant to write
FieldsOf ==
    [ set_sock |-> {"client_ip", "client_port"},
      set_port |-> {"port"},
      set_uid |-> {"uid"},
      set_server_index |-> {"server_index"},
      set_server_state |-> {"server_state"},
      set_release_cause |-> {"release_cause"},
      inc_sent_payload_pkts |-> {"sent_payload_packets"},
      inc_recv_payload_pkts |-> {"recv_payload_packets"} ]

\* dispatch of a setter
FieldSetCall(r, name, arg) ==
    CASE name = "set_sock" -> set_sock(r, arg)
      [] name = "set_port" -> set_port(r, arg)
      [] name = "set_uid" -> set_uid(r, arg)
      [] name = "set_server_index" -> set_server_index(r, arg)
      [] name = "set_server_state" -> set_server_state(r, arg)
      [] name = "set_release_cause" -> set_release_cause(r, arg)

\* dispatch of a counter increment
FieldIncCall(r, name, build) ==
    IF name = "inc_sent_payload_pkts" THEN inc_sent_payload_pkts(r, build)
    ELSE inc_recv_payload_pkts(r, build)

\* dispatch of a read accessor
FieldReadCall(r, name) ==
    CASE name = "role" -> role(r)
      [] name = "sock" -> HasConData_sock(r)
      [] name = "port" -> HasConData_port(r)
      [] name = "uid" -> uid(r)
      [] name = "server_index" -> server_index(r)
      [] name = "sent_payload_packets" -> sent_payload_packets(r)
      [] name = "recv_payload_packets" -> recv_payload_packets(r)
      [] name = "server_state" -> server_state(r)
      [] name = "release_cause" -> release_cause(r)
      [] name = "last_state" -> last_state(r)
      [] name = "states" -> states(r)
      [] name = "get_first_stamp" -> get_first_stamp(r)
      [] name = "get_last_stamp" -> get_last_stamp(r)
      [] name = "deltas_to_base_stamp" -> deltas_to_base_stamp(r)

\* the calls of an increment counted in incs
IncsAfter(name) ==
    IF name = "inc_sent_payload_pkts"
    THEN [incs EXCEPT !.sent = @ + 1]
    ELSE [incs EXCEPT !.recv = @ + 1]

\* a setter on the live record
FieldSet(name, arg) ==
    /\ fault = "none"
    /\ pc = "live"
    /\ ncalls < MaxFieldCalls
    /\ rec' = FieldSetCall(rec, name, arg)
    /\ call' = [name |-> name, h |-> 0, arg |-> arg, ret |-> None]
    /\ ncalls' = ncalls + 1
    /\ UNCHANGED <<pc, pushed, clock, handles, cause_sets, shuffled, incs,
                   storeVars, idxVars, fault>>

\* a counter increment on the live record
FieldInc(name, build) ==
    /\ fault = "none"
    /\ pc = "live"
    /\ ncalls < MaxFieldCalls
    /\ LET r == FieldIncCall(rec, name, build)
       IN  /\ rec' = r.rec
           /\ fault' = IF r.panic THEN PanicAddOverflow ELSE "none"
           /\ call' = [name |-> name, h |-> 0, arg |-> build, ret |-> r.ret]
    /\ incs' = IncsAfter(name)
    /\ ncalls' = ncalls + 1
    /\ UNCHANGED <<pc, pushed, clock, handles, cause_sets, shuffled,
                   storeVars, idxVars>>

\* a read accessor on the live record: a method on &self
FieldRead(name) ==
    /\ fault = "none"
    /\ pc = "live"
    /\ call' = [name |-> name, h |-> 0, arg |-> None, ret |-> Some(FieldReadCall(rec, name))]
    /\ UNCHANGED <<recVars, handles, cause_sets, ncalls, shuffled, incs,
                   storeVars, idxVars, fault>>

NextFields ==
    \/ \E new_role \in {"Client", "Server"} : RecInit(new_role, 1, None)
    \/ RecPushState("Established")
    \/ \E name \in DOMAIN FieldSets : \E arg \in FieldSets[name] : FieldSet(name, arg)
    \/ \E name \in FieldIncs, build \in Builds : FieldInc(name, build)
    \/ \E name \in FieldReads : FieldRead(name)

SpecFields == InitRec /\ [][NextFields]_vars

\* the sequence a is the beginning of the sequence b
IsPrefix(a, b) == Len(a) <= Len(b) /\ \A k \in 1..Len(a) : a[k] = b[k]

\* C21: between inits the state history only grows: after a push_state
\* that returns, the states() of before is a proper prefix of the states()
\* of after, and no operation other than init shortens or rewrites the
\* states recorded so far, the first stamp or the deltas recorded so far.
C21_HistoryAppendOnly ==
    [][ pc = "live" =>
           /\ IsPrefix(states(rec), states(rec'))
           /\ IsPrefix(deltas_to_base_stamp(rec), deltas_to_base_stamp(rec'))
           /\ get_first_stamp(rec) # None =>
                 get_first_stamp(rec') = get_first_stamp(rec)
           /\ (call'.name = "push_state" /\ fault' = "none") =>
                 /\ Len(states(rec')) = Len(states(rec)) + 1
                 /\ states(rec')[Len(states(rec'))] = call'.arg
           /\ call'.name # "push_state" => states(rec') = states(rec) ]_vars

\* states were pushed before and after setters and increments were called
C21_Witness ==
    /\ pc = "live"
    /\ fault = "none"
    /\ call.name = "push_state"
    /\ Len(states(rec)) >= 4
    /\ Len(deltas_to_base_stamp(rec)) >= 2
    /\ ncalls = MaxFieldCalls
    /\ release_cause(rec) = "Timeout"

\* the record without the fields of the set fields
Without(r, fields) == [f \in (DOMAIN r) \ fields |-> r[f]]

\* C24: each setter and each counter increment of a record writes its own
\* field only (set_sock the two fields of the socket), every other field
\* of the record keeping its value, and the read accessors change nothing.
C24_OwnFieldOnly ==
    [][ /\ call'.name \in DOMAIN FieldsOf =>
              Without(rec', FieldsOf[call'.name]) = Without(rec, FieldsOf[call'.name])
        /\ call'.name \in FieldReads => rec' = rec ]_vars

\* set_sock was called on a record whose port differs from the socket's
C24_Witness ==
    /\ pc = "live"
    /\ call.name = "set_sock"
    /\ HasConData_sock(rec) = call.arg
    /\ HasConData_port(rec) # call.arg[2]
    /\ rec.state_count >= 1
    /\ ncalls = MaxFieldCalls

(***************************************************************************)
(* The payload counters of one live record, incremented up to and over     *)
(* the largest value of their type.                                        *)
(***************************************************************************)
\* a counter increment on the live record, as long as the calls counted
\* fit the counter's type
CountInc(name, build) ==
    /\ fault = "none"
    /\ pc = "live"
    /\ (IF name = "inc_sent_payload_pkts" THEN incs.sent ELSE incs.recv) <= U16Max
    /\ LET r == FieldIncCall(rec, name, build)
       IN  /\ rec' = r.rec
           /\ fault' = IF r.panic THEN PanicAddOverflow ELSE "none"
           /\ call' = [name |-> name, h |-> 0, arg |-> build, ret |-> r.ret]
    /\ incs' = IncsAfter(name)
    /\ UNCHANGED <<pc, pushed, clock, handles, cause_sets, ncalls, shuffled,
                   storeVars, idxVars>>

NextCount ==
    \/ \E new_role \in {"Client", "Server"} : RecInit(new_role, 1, None)
    \/ \E name \in FieldIncs, build \in Builds : CountInc(name, build)
    \/ \E name \in {"sent_payload_packets", "recv_payload_packets"} : FieldRead(name)

SpecCount == InitRec /\ [][NextCount]_vars

\* C25: inc_sent_payload_pkts and inc_recv_payload_pkts each raise their
\* own counter by exactly 1 and return the new value, whatever value in
\* 0..65535 the counter has: no increment fails, each returns the number
\* of increments of its counter since init, and the counters read back are
\* these numbers.
C25_CountersCountIncrements ==
    /\ fault = "none"
    /\ pc = "live" =>
          /\ sent_payload_packets(rec) = incs.sent
          /\ recv_payload_packets(rec) = incs.recv
    /\ call.name = "inc_sent_payload_pkts" => call.ret = Some(incs.sent)
    /\ call.name = "inc_recv_payload_pkts" => call.ret = Some(incs.recv)

(***************************************************************************)
(* The two arrays of a Store64.  A connection is opened by taking a slot,  *)
(* initialising its record and writing the uid of the record into the      *)
(* payload of the slot; records are changed through get_mut and the store  *)
(* is sorted in between.                                                   *)
(***************************************************************************)
\* a connection is opened on the Store64: get_unused_slot, init of the
\* record behind get_mut(slot), the uid written behind get_mut_1(slot)
PairOpen(port) ==
    /\ fault = "none"
    /\ Len(s64_slots) <= cap
    /\ LET r == Store64_get_unused_slot(s64)
           now == clock + ClockStep
           new_rec == init(r.store.store_0[r.slot], "Client", port, None, now)
       IN  /\ Store64_get_mut(r.store, r.slot) # None
           /\ Store64_get_mut_1(r.store, r.slot) # None
           /\ s64' = [r.store EXCEPT !.store_0[r.slot] = new_rec,
                                     !.store_1[r.slot] = uid(new_rec)]
           /\ s64_slots' = Append(s64_slots, r.slot)
           /\ s64_warns' = s64_warns + (IF r.warned THEN 1 ELSE 0)
           /\ clock' = now
           /\ call' = [name |-> "init", h |-> 0,
                       arg |-> <<"Client", port, None>>, ret |-> Some(r.slot)]
    /\ UNCHANGED <<cap, rs, rs_slots, rs_warns, rec, pc, pushed, idxVars,
                   handles, cause_sets, ncalls, shuffled, incs, fault>>

\* set_port on the record get_mut returns for slot; nothing is written
\* when get_mut returns None
PairSetPort(slot, port) ==
    /\ fault = "none"
    /\ LET got == Store64_get_mut(s64, slot)
       IN  s64' = IF got = None THEN s64
                  ELSE [s64 EXCEPT !.store_0[slot] = set_port(got[1], port)]
    /\ call' = [name |-> "set_port", h |-> 0, arg |-> <<slot, port>>, ret |-> None]
    /\ UNCHANGED <<cap, rs, rs_slots, rs_warns, s64_slots, s64_warns, recVars,
                   idxVars, handles, cause_sets, ncalls, shuffled, incs, fault>>

\* Store64::sort_0_by; the call keeps the store as it was before
PairSort(cmp) ==
    /\ fault = "none"
    /\ s64' = Store64_sort_0_by(s64, cmp)
    /\ call' = [name |-> "sort_0_by", h |-> 0, arg |-> cmp, ret |-> Some(s64)]
    /\ UNCHANGED <<cap, rs, rs_slots, rs_warns, s64_slots, s64_warns, recVars,
                   idxVars, handles, cause_sets, ncalls, shuffled, incs, fault>>

NextPair ==
    \/ \E port \in 1..U16Max : PairOpen(port)
    \/ \E slot \in 0..(cap - 1), port \in 1..U16Max : PairSetPort(slot, port)
    \/ \E cmp \in Comparators : PairSort(cmp)

SpecPair == InitSort /\ [][NextPair]_vars

\* C23: in a Store64 the record get(s) returns and the payload get_1(s)
\* returns belong to the same allocation, for every valid slot s and after
\* every sequence of allocations, record mutations, wraps and sort_0_by
\* calls: the payload is the uid the record got when the slot was opened.
C23_RecordAndPayloadPaired ==
    \A slot \in 0..cap :
        Store64_get(s64, slot) # None =>
            /\ Store64_get_1(s64, slot) # None
            /\ Store64_get_1(s64, slot)[1] = uid(Store64_get(s64, slot)[1])
            /\ uid(Store64_get(s64, slot)[1]) # uid(ConRecord_new)

\* a Store64 of capacity 3 was sorted by port after more connections than
\* it has slots were opened and the port of a record was changed
C23_Witness ==
    /\ cap = 3
    /\ call.name = "sort_0_by"
    /\ call.arg = "by_port"
    /\ Len(s64_slots) = cap + 1
    /\ s64_warns >= 1
    /\ Store64_get(s64, 0) # None
    /\ HasConData_port(Store64_get(s64, 0)[1]) = U16Max

(***************************************************************************)
(* Slots handed out again.  On one of the two stores slots are taken, the  *)
(* record of the slot taken last is initialised, its connection runs and   *)
(* is released, and further slots are taken until the store has wrapped.   *)
(***************************************************************************)
StoreKinds == {"RecordStore", "Store64"}

\* the slots returned so far by the store of a kind, the record at a slot
\* of it, and the other kind
SlotsOf(kind) == IF kind = "RecordStore" THEN rs_slots ELSE s64_slots
RecordAt(kind, slot) == IF kind = "RecordStore" THEN rs.store[slot] ELSE s64.store_0[slot]
OtherKind(kind) == IF kind = "RecordStore" THEN "Store64" ELSE "RecordStore"

\* the stores with the record r written through get_mut(slot) of the store
\* of a kind
RecordWritten(kind, slot, r) ==
    IF kind = "RecordStore"
    THEN /\ RecordStore_get_mut(rs, slot) # None
         /\ rs' = WithRecord(rs, slot, r)
         /\ s64' = s64
    ELSE /\ Store64_get_mut(s64, slot) # None
         /\ s64' = [s64 EXCEPT !.store_0[slot] = r]
         /\ rs' = rs

\* get_unused_slot alone, on the store of a kind
ReuseAlloc(kind) ==
    /\ fault = "none"
    /\ SlotsOf(OtherKind(kind)) = <<>>
    /\ Len(SlotsOf(kind)) <= cap
    /\ IF kind = "RecordStore"
       THEN LET r == RecordStore_get_unused_slot(rs)
            IN  /\ rs' = r.store
                /\ rs_slots' = Append(rs_slots, r.slot)
                /\ rs_warns' = rs_warns + (IF r.warned THEN 1 ELSE 0)
                /\ call' = [name |-> "get_unused_slot", h |-> 0,
                            arg |-> kind, ret |-> Some(r.slot)]
                /\ UNCHANGED <<s64, s64_slots, s64_warns>>
       ELSE LET r == Store64_get_unused_slot(s64)
            IN  /\ s64' = r.store
                /\ s64_slots' = Append(s64_slots, r.slot)
                /\ s64_warns' = s64_warns + (IF r.warned THEN 1 ELSE 0)
                /\ call' = [name |-> "get_unused_slot", h |-> 0,
                            arg |-> kind, ret |-> Some(r.slot)]
                /\ UNCHANGED <<rs, rs_slots, rs_warns>>
    /\ UNCHANGED <<cap, recVars, idxVars, handles, cause_sets, ncalls, shuffled,
                   incs, fault>>

\* ConRecord::init on the record of the slot taken last
ReuseInit(kind, new_role) ==
    /\ fault = "none"
    /\ SlotsOf(kind) # <<>>
    /\ call.name = "get_unused_slot"
    /\ LET slot == SlotsOf(kind)[Len(SlotsOf(kind))]
           now == clock + ClockStep
       IN  /\ RecordWritten(kind, slot,
                            init(RecordAt(kind, slot), new_role, 1, Some(<<1, 1>>), now))
           /\ clock' = now
           /\ call' = [name |-> "init", h |-> 0,
                       arg |-> <<new_role, 1, Some(<<1, 1>>)>>, ret |-> Some(slot)]
    /\ UNCHANGED <<cap, rs_slots, rs_warns, s64_slots, s64_warns, rec, pc, pushed,
                   idxVars, handles, cause_sets, ncalls, shuffled, incs, fault>>

\* the connection on the record of the slot taken last runs and is
\* released: a state is pushed, a payload packet is counted and the release
\* cause is set
ReuseRelease(kind, cause) ==
    /\ fault = "none"
    /\ SlotsOf(kind) # <<>>
    /\ call.name = "init"
    /\ LET slot == SlotsOf(kind)[Len(SlotsOf(kind))]
           now == clock + ClockStep
           established == push_state(RecordAt(kind, slot), "Established", now).rec
           counted == inc_sent_payload_pkts(established, "release").rec
       IN  /\ RecordWritten(kind, slot, set_release_cause(counted, cause))
           /\ clock' = now
           /\ call' = [name |-> "set_release_cause", h |-> 0, arg |-> cause,
                       ret |-> Some(slot)]
    /\ UNCHANGED <<cap, rs_slots, rs_warns, s64_slots, s64_warns, rec, pc, pushed,
                   idxVars, handles, cause_sets, ncalls, shuffled, incs, fault>>

NextReuse ==
    \E kind \in StoreKinds :
        \/ ReuseAlloc(kind)
        \/ \E new_role \in {"Client", "Server"} : ReuseInit(kind, new_role)
        \/ \E cause \in SetCauses : ReuseRelease(kind, cause)

SpecReuse == InitSort /\ [][NextReuse]_vars

\* the step is a get_unused_slot call
SlotTaken == rs_slots' # rs_slots \/ s64_slots' # s64_slots

\* C27: get_unused_slot changes the allocation counter only: every record
\* and payload of the store is what it was before the call, and the record
\* of the slot returned, if a connection used it before, still has that
\* connection's state history, counters, sock, uid and release cause.
C27_AllocationLeavesRecords ==
    [][ SlotTaken =>
           /\ rs'.store = rs.store
           /\ s64'.store_0 = s64.store_0
           /\ s64'.store_1 = s64.store_1
           /\ LET kind == call'.arg
                  slot == call'.ret[1]
              IN  /\ kind = "RecordStore" =>
                        RecordStore_get(rs', slot) = Some(rs.store[slot])
                  /\ kind = "Store64" =>
                        Store64_get(s64', slot) = Some(s64.store_0[slot]) ]_vars

\* the slot 0 of a RecordStore of capacity 2 was handed out again with the
\* record of a released connection in it
C27_Witness ==
    /\ cap = 2
    /\ call.name = "get_unused_slot"
    /\ call.ret = Some(0)
    /\ rs_warns = 1
    /\ release_cause(rs.store[0]) = "ActiveClose"
    /\ states(rs.store[0]) = <<"Listen", "Established">>
    /\ sent_payload_packets(rs.store[0]) = 1
    /\ uid(rs.store[0]) # 0
    /\ HasConData_sock(rs.store[0]) = <<1, 1>>

====
